---- MODULE Spec2Model ----
(***************************************************************************)
(* Rocket WebSocket subsystem: the connection tasks of the event router    *)
(* (router.rs), the rocket-multiplex classification and control parser,    *)
(* and the Data peek/take pair they rest on (data.rs).                      *)
(*                                                                         *)
(* Bytes are naturals 0..255; byte strings are sequences of bytes.         *)
(***************************************************************************)
EXTENDS Integers, Sequences, FiniteSets, TLC

\* ------------------------------------------------------------------ bounds

\* Number of messages the connection task takes from the channel in one run.
MaxMessages == 2

\* ------------------------------------------------------- protocol constants

\* rocket_multiplex::MAX_TOPIC_LENGTH
MAX_TOPIC_LENGTH == 100
\* data.rs PEEK_BYTES
PEEK_BYTES == 512
\* rocket_multiplex::MULTIPLEX_CONTROL_CHAR, U+00B7 in UTF-8
MULTIPLEX_CONTROL_CHAR == <<194, 183>>

\* WebSocket close codes (channels::OK ...), RFC 6455 section 7.4.1
OK == 1000
GOING_AWAY == 1001
PROTOCOL_ERROR == 1002
UNKNOWN_MESSAGE_TYPE == 1003
INVALID_DATA_TYPE == 1007
POLICY_VIOLATION == 1008
MESSAGE_TOO_LARGE == 1009
EXTENSION_REQUIRED == 1010
INTERNAL_SERVER_ERROR == 1011
\* WebSocketStatus::internal(404): no route took the event
NOT_FOUND == 404

\* ------------------------------------------------------------ byte helpers

Min(a, b) == IF a < b THEN a ELSE b

Take0(s, n) == SubSeq(s, 1, Min(n, Len(s)))
Drop0(s, n) == SubSeq(s, Min(n, Len(s)) + 1, Len(s))

RECURSIVE Flatten(_)
Flatten(chunks) ==
    IF chunks = <<>> THEN <<>> ELSE Head(chunks) \o Flatten(Tail(chunks))

Repeat(b, n) == [i \in 1..n |-> b]

\* slice.windows(2).enumerate().find(|(_, c)| c == MULTIPLEX_CONTROL_CHAR):
\* the 0-based index of the first window equal to the separator, -1 for None.
FindFrom(bytes, start) ==
    LET n == Len(MULTIPLEX_CONTROL_CHAR)
        hits == {i \in start..(Len(bytes) - n) :
                    SubSeq(bytes, i + 1, i + n) = MULTIPLEX_CONTROL_CHAR}
    IN  IF hits = {} THEN -1
        ELSE CHOOSE i \in hits : \A j \in hits : i <= j

FindSep(bytes) == FindFrom(bytes, 0)

\* str::split(MULTIPLEX_CONTROL_STR): the pieces between separators; a string
\* without separator is one piece, an empty string one empty piece.
RECURSIVE Split(_)
Split(s) ==
    LET i == FindSep(s) IN
    IF i = -1 THEN <<s>>
    ELSE <<SubSeq(s, 1, i)>> \o Split(Drop0(s, i + Len(MULTIPLEX_CONTROL_CHAR)))

\* std::str::from_utf8 on the byte values the model uses: ASCII bytes, and the
\* two-byte sequences 0xC2..0xDF followed by a continuation byte 0x80..0xBF.
Utf8Valid(s) ==
    \A i \in 1..Len(s) :
        \/ s[i] < 128
        \/ s[i] \in 194..223 /\ i < Len(s) /\ s[i + 1] \in 128..191
        \/ s[i] \in 128..191 /\ i > 1 /\ s[i - 1] \in 194..223

\* Origin::parse: an origin-form URI starts with '/' and holds only visible
\* ASCII; the parsed value is compared by its path and query text.
OriginValid(s) ==
    /\ Len(s) >= 1
    /\ s[1] = 47
    /\ \A i \in 1..Len(s) : s[i] \in 33..126

\* --------------------------------------------------------------- data.rs

\* A Data is the peek buffer and the chunks the stream has not yet yielded.
NewData(chunks) == [buffer |-> <<>>, stream |-> chunks]

\* Data::peek, the reads: fill the buffer until it holds num bytes or the
\* stream ends.
RECURSIVE PeekFill(_, _)
PeekFill(data, num) ==
    IF Len(data.buffer) >= Min(PEEK_BYTES, num) \/ data.stream = <<>> THEN data
    ELSE PeekFill([buffer |-> data.buffer \o Head(data.stream),
                   stream |-> Tail(data.stream)], num)

\* Data::peek, the slice returned.
Peek(data, num) == Take0(PeekFill(data, num).buffer, Min(PEEK_BYTES, num))

\* Data::take returning the whole peek buffer instead of its first bytes.
TakeBytesWholeBuffer(data, num) == PeekFill(data, num).buffer

\* Data::take: the bytes peek(num) returns are split off the buffer.
TakeBytes(data, num) == Peek(data, num)
TakeRest(data, num) ==
    LET d == PeekFill(data, num) IN
    [buffer |-> Drop0(d.buffer, Len(Peek(data, num))), stream |-> d.stream]

\* What is left to read from a Data.
Remaining(data) == data.buffer \o Flatten(data.stream)

\* ------------------------------------------------------------ input values

\* "/a", "/b", "/c": topic URIs; LongTopic is a topic of MAX_TOPIC_LENGTH bytes.
TopicA == <<47, 97>>
TopicB == <<47, 98>>
TopicC == <<47, 99>>
LongTopic == <<47>> \o Repeat(97, MAX_TOPIC_LENGTH - 1)
Topics == {TopicA, TopicB, TopicC, LongTopic}

SUBSCRIBE == <<83, 85, 66, 83, 67, 82, 73, 66, 69>>
UNSUBSCRIBE == <<85, 78>> \o SUBSCRIBE
Hi == <<104, 105>>

Sep == MULTIPLEX_CONTROL_CHAR

\* SEP ACTION SEP PARAM
Control(action, param) == Sep \o action \o Sep \o param
\* TOPIC SEP PAYLOAD
DataMsg(topic, payload) == topic \o Sep \o payload

\* Message bodies a client sends, each as the chunks the channel delivers.
Bodies ==
    { <<Control(SUBSCRIBE, t)>> : t \in Topics } \cup
    { <<Control(UNSUBSCRIBE, t)>> : t \in {TopicA, TopicB} } \cup
    { <<DataMsg(t, Hi)>> : t \in Topics } \cup
    { <<Sep, SUBSCRIBE \o Sep, TopicB>>,               \* SUBSCRIBE /b in three chunks
      <<TopicA \o <<194>>, <<183>> \o Hi>>,            \* /a SEP hi, separator split
      <<Sep>>,                                         \* the separator alone
      <<Sep \o SUBSCRIBE>>,                            \* missing parameter
      <<Control(SUBSCRIBE, TopicA) \o Sep \o TopicB>>, \* too many parameters
      <<Control(UNSUBSCRIBE, TopicA) \o Sep \o TopicB>>,
      <<Control(SUBSCRIBE, <<97, 32>>)>>,              \* parameter is no URI
      <<Control(<<70, 79, 79>>, TopicA)>>,             \* unknown action
      <<Sep \o <<255>>>>,                              \* control, not UTF-8
      <<DataMsg(<<97>>, Hi)>>,                         \* topic "a" is no origin URI
      <<DataMsg(<<47, 183>>, Hi)>>,                    \* topic is not UTF-8
      <<DataMsg(TopicA, Sep \o Hi)>>,                  \* second separator in payload
      <<DataMsg(TopicA \o <<47, 98>>, Sep)>>,          \* topic /a/b is not subscribed
      <<Hi>>,                                          \* no separator at all
      <<>>,                                            \* empty message
      <<DataMsg(LongTopic \o <<97>>, Hi)>>,            \* separator at offset 101
      <<Repeat(97, MAX_TOPIC_LENGTH + 1) \o <<194>>, <<183>> \o Hi>> }

\* Close bodies: none, undecodable (one byte), or a big-endian status code.
CloseCodes ==
    {OK, GOING_AWAY, PROTOCOL_ERROR, UNKNOWN_MESSAGE_TYPE, 1005, INVALID_DATA_TYPE,
     POLICY_VIOLATION, MESSAGE_TOO_LARGE, EXTENSION_REQUIRED, INTERNAL_SERVER_ERROR,
     2999, 3000, 4999, 5000}
CodeBytes(c) == <<c \div 256, c % 256>>
CloseBodies == {<<>>} \cup {<<<<3>>>>} \cup { <<CodeBytes(c)>> : c \in CloseCodes }

\* --------------------------------------------------------------- routes

\* Route tables a server can be started with: per event kind the routes in
\* registration order. A route matches a request by its path (Any for a
\* dynamic segment that matches every topic, written <<42>>).
AnyPath == <<42>>
R(id, path, rank) == [id |-> id, path |-> path, rank |-> rank]

\* WebSocketRouter::new and add_route: the route is pushed at the end of the
\* list of its event kind.
EmptyTable == [Join |-> <<>>, Message |-> <<>>, Leave |-> <<>>]
add_route(table, kind, route) == [table EXCEPT ![kind] = Append(@, route)]

RouteTables ==
    { add_route(add_route(EmptyTable, "Message", R("m_any", AnyPath, 1)),
                "Message", R("m_a", TopicA, 0)),      \* the rank 1 route registered first
      [Join    |-> <<R("j_any", AnyPath, 2)>>,
       Message |-> <<R("m_a", TopicA, 0), R("m_b", TopicB, 0), R("m_any", AnyPath, 1)>>,
       Leave   |-> <<R("l_any", AnyPath, 3)>>],
      [Join    |-> <<>>,
       Message |-> <<R("m_a", TopicA, 0), R("m_any", AnyPath, 1)>>,
       Leave   |-> <<>>] }

\* Route tables finalize refuses: two routes of one rank whose paths overlap,
\* next to each other in a list, apart in a list, and in two lists.
CollidingTables ==
    { [Join    |-> <<>>,
       Message |-> <<R("m_a", TopicA, 0), R("m_any", AnyPath, 0)>>,
       Leave   |-> <<>>],
      [Join    |-> <<>>,
       Message |-> <<R("m_a", TopicA, 0), R("m_b", TopicB, 0), R("m_a2", TopicA, 0)>>,
       Leave   |-> <<>>],
      [Join    |-> <<R("j_a", TopicA, 0)>>,
       Message |-> <<R("m_b", TopicB, 0), R("m_any", AnyPath, 1)>>,
       Leave   |-> <<R("l_a", TopicA, 0), R("l_any", AnyPath, 1)>>] }

\* Route::matches on the request's URI.
Matches(route, topic) == route.path = AnyPath \/ route.path = topic

\* Statuses a handler fails with.
FailStatuses == {POLICY_VIOLATION}

\* ------------------------------------------------ router.rs: classification

\* The first subscription whose topic equals the parsed topic (its index in
\* the list), 0 when there is none.
RECURSIVE FirstWithTopic(_, _, _)
FirstWithTopic(subs, topic, i) ==
    IF i > Len(subs) THEN 0
    ELSE IF subs[i].topic = topic THEN i
    ELSE FirstWithTopic(subs, topic, i + 1)

\* A lookup that takes the first subscription whenever some subscription
\* has the topic.
FindSubscriptionFirst(subs, topic) ==
    IF FirstWithTopic(subs, topic, 1) # 0 THEN 1 ELSE 0

\* multiplex_get_request, the loop over the subscriptions: the first one
\* whose topic is the message's topic.
FindSubscription(subs, topic) == FirstWithTopic(subs, topic, 1)

\* A peek of the topic bytes without room for the separator.
PeekLengthTopicOnly == MAX_TOPIC_LENGTH

\* multiplex_get_request, the number of bytes peeked.
PeekLength == MAX_TOPIC_LENGTH + Len(MULTIPLEX_CONTROL_CHAR)

\* WebSocketRouter::multiplex_get_request: the class of a message, the
\* subscription it belongs to, and the Data left for the handler.
multiplex_get_request(data, subs) ==
    LET num   == PeekLength
        topic == Peek(data, num)
        index == FindSep(topic)
        peeked == PeekFill(data, num)
    IN  IF index = -1
        THEN [class |-> "TopicNotPresent", sub |-> 0, topic |-> <<>>, data |-> peeked]
        ELSE IF index = 0
        THEN [class |-> "ControlMessage", sub |-> 0, topic |-> <<>>, data |-> peeked]
        ELSE
          LET n    == index + Len(MULTIPLEX_CONTROL_CHAR)
              raw  == TakeBytes(data, n)
              rest == TakeRest(data, n)
              name == SubSeq(raw, 1, index)
          IN  IF ~Utf8Valid(name)
              THEN [class |-> "Utf8Error", sub |-> 0, topic |-> name, data |-> rest]
              ELSE IF ~OriginValid(name)
              THEN [class |-> "UrlError", sub |-> 0, topic |-> name, data |-> rest]
              ELSE IF FindSubscription(subs, name) # 0
              THEN [class |-> "Ok", sub |-> FindSubscription(subs, name),
                    topic |-> name, data |-> rest]
              ELSE [class |-> "NotSubscribed", sub |-> 0, topic |-> name, data |-> rest]

\* A text body is written as its pieces, joined on the wire by the separator:
\* <<"ERR", "Already Subscribed">> is ERR<SEP>Already Subscribed.
ControlErr(head, text) == [ok |-> FALSE, action |-> "", topic |-> <<>>, body |-> <<head, text>>]
ControlOk(action, topic) == [ok |-> TRUE, action |-> action, topic |-> topic, body |-> <<>>]

\* WebSocketRouter::handle_control: parse SEP ACTION SEP PARAM.
handle_control(data) ==
    LET message == TakeBytes(data, 512)
        parts   == Split(message)
        arg(action) ==
            IF Len(parts) < 3 THEN ControlErr("ERR", "Missing topic parameter")
            ELSE IF Len(parts) > 3
            THEN ControlErr(IF action = "SUBSCRIBE" THEN "ERR" ELSE "Err", "To many arguments")
            ELSE IF ~OriginValid(parts[3]) THEN ControlErr("ERR", "Invalid topic Uri")
            ELSE ControlOk(action, parts[3])
    IN  IF ~Utf8Valid(message) THEN ControlErr("INVALID", "Non UTF-8")
        ELSE IF parts[1] # <<>> THEN ControlErr("INVALID", "Improperly formatted message")
        ELSE IF Len(parts) < 2 THEN ControlErr("INVALID", "Improperly formatted message")
        ELSE IF parts[2] = SUBSCRIBE THEN arg("SUBSCRIBE")
        ELSE IF parts[2] = UNSUBSCRIBE THEN arg("UNSUBSCRIBE")
        ELSE ControlErr("INVALID", "Unkown control message")

\* Error texts with NotSubscribed answered as TopicNotPresent.
MultiplexErrorTextSwapped(class) ==
    IF class = "Utf8Error" THEN <<"ERR", "Topic was not valid utf8">>
    ELSE IF class = "UrlError" THEN <<"ERR", "Topic was not a valid url">>
    ELSE <<"ERR", "Topic not present">>

\* MultiplexError::send_message: the text sent for a classification error.
MultiplexErrorText(class) ==
    CASE class = "TopicNotPresent" -> <<"ERR", "Topic not present">>
      [] class = "NotSubscribed"   -> <<"ERR", "Not subscribed to topic">>
      [] class = "ControlMessage"  -> <<"ERR", "Unexpected control message">>
      [] class = "Utf8Error"       -> <<"ERR", "Topic was not valid utf8">>
      [] class = "UrlError"        -> <<"ERR", "Topic was not a valid url">>

\* WebSocketStatus::decode: a big-endian u16 status code, -1 when the body
\* is too short to hold one.
DecodeStatus(body) == IF Len(body) < 2 THEN -1 ELSE body[1] * 256 + body[2]

\* A close_status without the GOING_AWAY arm.
close_status_no_going_away(body) ==
    IF body = <<>> THEN OK
    ELSE LET status == DecodeStatus(Head(body)) IN
         IF status = -1 THEN PROTOCOL_ERROR
         ELSE IF status \in {OK, EXTENSION_REQUIRED} \cup (3000..4999) THEN OK
         ELSE IF status \in {UNKNOWN_MESSAGE_TYPE, INVALID_DATA_TYPE, POLICY_VIOLATION,
                             MESSAGE_TOO_LARGE, INTERNAL_SERVER_ERROR} THEN status
         ELSE PROTOCOL_ERROR

\* A close_status whose reserved range stops one code short.
close_status_short_range(body) ==
    IF body = <<>> THEN OK
    ELSE LET status == DecodeStatus(Head(body)) IN
         IF status = -1 THEN PROTOCOL_ERROR
         ELSE IF status \in {OK, GOING_AWAY, EXTENSION_REQUIRED} \cup (3000..4998) THEN OK
         ELSE IF status \in {UNKNOWN_MESSAGE_TYPE, INVALID_DATA_TYPE, POLICY_VIOLATION,
                             MESSAGE_TOO_LARGE, INTERNAL_SERVER_ERROR} THEN status
         ELSE PROTOCOL_ERROR

\* WebSocketRouter::close_status: the status answered to a client's Close;
\* body is the chunks of the Close message, <<>> when it carries none.
close_status(body) ==
    IF body = <<>> THEN OK
    ELSE LET status == DecodeStatus(Head(body)) IN
         IF status = -1 THEN PROTOCOL_ERROR
         ELSE IF status = OK THEN OK
         ELSE IF status = GOING_AWAY THEN OK
         ELSE IF status = EXTENSION_REQUIRED THEN OK
         ELSE IF status = UNKNOWN_MESSAGE_TYPE THEN UNKNOWN_MESSAGE_TYPE
         ELSE IF status = INVALID_DATA_TYPE THEN INVALID_DATA_TYPE
         ELSE IF status = POLICY_VIOLATION THEN POLICY_VIOLATION
         ELSE IF status = MESSAGE_TOO_LARGE THEN MESSAGE_TOO_LARGE
         ELSE IF status = INTERNAL_SERVER_ERROR THEN INTERNAL_SERVER_ERROR
         ELSE IF status \in 3000..4999 THEN OK
         ELSE PROTOCOL_ERROR

\* --------------------------------------------------- router.rs: dispatching

\* What a handler does when it is called and its future polled: it returns
\* Success, Failure(s) or Forward, or it panics in the call or in the poll.
Behaviour(o, s) == [o |-> o, s |-> s]
HandlerBehaviours ==
    {Behaviour("Success", 0), Behaviour("Forward", 0),
     Behaviour("PanicCall", 0), Behaviour("PanicPoll", 0)}
    \cup {Behaviour("Failure", s) : s \in FailStatuses}
IsPanic(b) == b.o \in {"PanicCall", "PanicPoll"}

\* A handle that takes a panic for a Forward.
handle_panic_forwards(b) == IF IsPanic(b) THEN Behaviour("Forward", 0) ELSE b

\* handle: the handler's outcome, None when the call or the poll panicked.
handle(b) == IF IsPanic(b) THEN Behaviour("None", 0) ELSE b

\* The run of one matching route with behaviour b, rest being the runs of
\* the routes after it; panicked is the position in calls of the handler
\* that panicked, 0 when none did.
RunHandler(id, b, rest) ==
    LET res == handle(b)
        hit == IF IsPanic(b) THEN 1 ELSE 0
    IN  CASE res.o = "Success" ->
               {[end |-> "Ok", status |-> 0, calls |-> <<id>>, panicked |-> hit]}
          [] res.o = "Failure" ->
               {[end |-> "Err", status |-> res.s, calls |-> <<id>>, panicked |-> hit]}
          [] res.o = "None" ->
               {[end |-> "Err", status |-> INTERNAL_SERVER_ERROR, calls |-> <<id>>,
                 panicked |-> hit]}
          [] res.o = "Forward" ->
               {[r EXCEPT !.calls = <<id>> \o r.calls,
                          !.panicked = IF hit = 1 THEN 1
                                       ELSE IF r.panicked > 0 THEN r.panicked + 1 ELSE 0]
                  : r \in rest}

\* A pass that calls the handler of every route, matching or not.
RECURSIVE RunRoutesUnmatched(_, _)
RunRoutesUnmatched(rs, topic) ==
    IF rs = <<>> THEN {[end |-> "Exhausted", status |-> 0, calls |-> <<>>, panicked |-> 0]}
    ELSE UNION { RunHandler(Head(rs).id, b, RunRoutesUnmatched(Tail(rs), topic))
                    : b \in HandlerBehaviours }

\* One pass over a route list: every way the matching routes' handlers can
\* answer. A handler returns Success (the run ends Ok), Failure(s) (Err, s),
\* panics (Err, INTERNAL_SERVER_ERROR) or forwards to the next matching route;
\* calls are the handlers invoked, in order.
RECURSIVE RunRoutes(_, _)
RunRoutes(rs, topic) ==
    IF rs = <<>> THEN {[end |-> "Exhausted", status |-> 0, calls |-> <<>>, panicked |-> 0]}
    ELSE IF ~Matches(Head(rs), topic) THEN RunRoutes(Tail(rs), topic)
    ELSE UNION { RunHandler(Head(rs).id, b, RunRoutes(Tail(rs), topic))
                    : b \in HandlerBehaviours }

\* WebSocketRouter::handle_message: the routes of the event kind in list
\* order; a Join no Join route settled is tried on the Message routes; an
\* exhausted list is the 404 failure.
NotFound(r) ==
    IF r.end = "Exhausted" THEN [r EXCEPT !.end = "Err", !.status = NOT_FOUND] ELSE r

\* A handle_message without the second pass of a Join over the Message routes.
handle_message_no_fallback(table, event, topic) ==
    { NotFound(r) : r \in RunRoutes(table[event], topic) }

handle_message(table, event, topic) ==
    LET first == RunRoutes(table[event], topic) IN
    IF event = "Join"
    THEN { r \in first : r.end # "Exhausted" } \cup
         UNION { { NotFound([m EXCEPT !.calls = r.calls \o m.calls,
                                      !.panicked = IF m.panicked > 0
                                                   THEN m.panicked + Len(r.calls)
                                                   ELSE r.panicked])
                     : m \in RunRoutes(table["Message"], topic) }
                 : r \in { x \in first : x.end = "Exhausted" } }
    ELSE { NotFound(r) : r \in first }

\* A remove_topic that takes out the head of the list when the topic is found.
remove_topic_head(subs, topic) ==
    IF FirstWithTopic(subs, topic, 1) = 0
    THEN [found |-> FALSE, removed |-> <<>>, subs |-> subs]
    ELSE [found |-> TRUE, removed |-> <<Head(subs)>>, subs |-> Tail(subs)]

\* WebSocketRouter::remove_topic: the first subscription with the topic is
\* taken out of the list and returned (removed holds it), if there is one.
remove_topic(subs, topic) ==
    LET index == FirstWithTopic(subs, topic, 1) IN
    IF index = 0 THEN [found |-> FALSE, removed |-> <<>>, subs |-> subs]
    ELSE [found   |-> TRUE,
          removed |-> <<subs[index]>>,
          subs    |-> SubSeq(subs, 1, index - 1) \o SubSeq(subs, index + 1, Len(subs))]

\* ------------------------------------------------------ router.rs: finalize

\* Collide for Route: two routes collide when they have one rank and paths
\* that a same request can match.
collides_with(a, b) ==
    /\ a.rank = b.rank
    /\ (a.path = AnyPath \/ b.path = AnyPath \/ a.path = b.path)

\* The orders in which the map of route lists can be iterated.
KindOrders ==
    { <<"Join", "Message", "Leave">>, <<"Join", "Leave", "Message">>,
      <<"Message", "Join", "Leave">>, <<"Message", "Leave", "Join">>,
      <<"Leave", "Join", "Message">>, <<"Leave", "Message", "Join">> }

\* WebSocketRouter::routes: every route of every list, list after list.
AllRoutes(table, order) == table[order[1]] \o table[order[2]] \o table[order[3]]

\* A pairing of each route with the one that follows it only.
PairsAdjacent(items) == [i \in 1..(Len(items) - 1) |-> <<i, i + 1>>]

\* WebSocketRouter::collisions, the pairs compared: each item with every
\* item after it (enumerate, then skip(i + 1)), as positions in items.
RECURSIVE PairsAfter(_, _)
PairsAfter(items, i) ==
    IF i > Len(items) THEN <<>>
    ELSE [k \in 1..(Len(items) - i) |-> <<i, i + k>>] \o PairsAfter(items, i + 1)
Pairs(items) == PairsAfter(items, 1)

\* WebSocketRouter::collisions: the compared pairs that collide.
collisions(items) ==
    SelectSeq(Pairs(items), LAMBDA q : collides_with(items[q[1]], items[q[2]]))

\* ------------------------------------------------------------------ state

VARIABLES
    routes,         \* the router's route table (fixed at startup)
    protocol,       \* Protocol::Naked or Protocol::Multiplexed
    pc,             \* where WebSocketRouter::handle and its task stand
    subscriptions,  \* the channels / subscriptions vector of logical Connections
    nextId,         \* identity of the next logical Connection created
    broker,         \* the broker registry: <<topic, handle>> pairs
    joined,         \* per topic, the Join events that ended Ok
    subscribed,     \* per topic, the broker.subscribe calls of this connection
    unsubscribed,   \* per topic, the registrations of this connection removed
    unsubAll,       \* the broker.unsubscribe_all calls of this connection
    taken,          \* messages taken from the channel so far
    cur,            \* the message the last step took
    req,            \* how multiplex_get_request classified it
    effects,        \* what the last step did, in order
    loop_joined,        \* ws_event_loop: its joined flag
    loop_close_status   \* ws_event_loop: its close_status, -1 for Err

\* The state of WebsocketChannel::message_handler (channels/websockets.rs)
\* and of its two neighbours, the client and the consumer of the channel.
VARIABLES
    frames,           \* the frames the client sends on this connection
    wire,             \* what the transport has still to deliver
    wire_end,         \* what a read finds after that: "eof", "error", "open"
    read_buf,         \* raw_ws.read_buf
    running_message,  \* Option<RunningMessage>: <<>> or <<r>>
    data_tx,          \* the data channel the loop sends payload chunks on
    data_rx,          \* Option<Receiver>: 0 or the channel the next message gets
    data_chans,       \* the mpsc::channel(1) data channels created so far
    message_tx,       \* the mpsc::channel(1) of messages to the consumer
    sending,          \* the message send_message is blocked sending, if any
    continue_fut,     \* the chunk a pending continue_message future holds
    consumer,         \* the messages the consumer took, with what it read
    broker_rx,        \* the send queue of outbound messages
    outgoing_message, \* Option<WebsocketMessage>: <<>> or <<m>>
    written,          \* the frames written to the transport, in order
    handler_pc,       \* where message_handler stands
    dropped           \* the WebsocketChannel and all its send handles are dropped

\* The broker's fan-out (channels::Broker::publish).
VARIABLES
    queues,           \* per outbound handle, its bounded outbound queue
    waiting           \* deliveries that wait for room in a full queue

routerVars == <<routes, protocol, pc, subscriptions, nextId, broker, joined,
                subscribed, unsubscribed, unsubAll, taken, cur, req, effects,
                loop_joined, loop_close_status>>

channelVars == <<frames, wire, wire_end, read_buf, running_message, data_tx,
                 data_rx, data_chans, message_tx, sending, continue_fut,
                 consumer, broker_rx, outgoing_message, written, handler_pc,
                 dropped>>

publishVars == <<queues, waiting>>

vars == <<routerVars, channelVars, publishVars>>

\* The locals of Rocket::ws_event_loop.
loopVars == <<loop_joined, loop_close_status>>

\* The outbound handle of this connection, and one of another connection.
Ws == "ws"
Other == "other"
Third == "third"
Handles == {Ws, Other, Third}

\* The capacity of an outbound queue.
QueueCapacity == 1

Conn(id, topic) == [id |-> id, topic |-> topic]

\* The effects a step records.
EventEff(event, conn, payload, run) ==
    [k |-> "event", event |-> event, conn |-> conn, payload |-> payload,
     end |-> run.end, status |-> run.status, calls |-> run.calls,
     panicked |-> run.panicked]
SendEff(body) == [k |-> "send", binary |-> FALSE, body |-> body]
CloseEff(status) == [k |-> "close", status |-> status]
BrokerEff(op, topic) == [k |-> "broker", op |-> op, topic |-> topic]
ResponseEff(switching, cause) == [k |-> "response", switching |-> switching, cause |-> cause]
PanicEff == [k |-> "panic"]

Msg(opcode, body, close) == [opcode |-> opcode, body |-> body, should_send_close |-> close]
NoMsg == Msg("None", <<>>, FALSE)
NoReq == [class |-> "None", sub |-> 0, topic |-> <<>>]

\* The broker (channels::Broker): subscribe, unsubscribe, unsubscribe_all.
BrokerSubscribe(reg, topic, sender) == reg \cup {<<topic, sender>>}
\* An unsubscribe that leaves the registry as it is.
BrokerUnsubscribeKeeps(reg, topic, sender) == reg
BrokerUnsubscribe(reg, topic, sender) == reg \ {<<topic, sender>>}
\* An unsubscribe_all that removes one registration of the sender per call.
BrokerUnsubscribeOne(reg, sender) ==
    LET mine == { e \in reg : e[2] = sender } IN
    IF mine = {} THEN reg ELSE reg \ {CHOOSE e \in mine : TRUE}
BrokerUnsubscribeAll(reg, sender) == { e \in reg : e[2] # sender }
Registered(reg, sender) == { e[1] : e \in { x \in reg : x[2] = sender } }

Bump(f, topic) == [f EXCEPT ![topic] = @ + 1]

\* No channel has been spawned: message_handler owns nothing yet.
ChannelIdle ==
    /\ frames = <<>>
    /\ wire = <<>>
    /\ wire_end = "open"
    /\ read_buf = <<>>
    /\ running_message = <<>>
    /\ data_tx = 0
    /\ data_rx = 0
    /\ data_chans = <<>>
    /\ message_tx = <<>>
    /\ sending = <<>>
    /\ continue_fut = <<>>
    /\ consumer = <<>>
    /\ broker_rx = <<>>
    /\ outgoing_message = <<>>
    /\ written = <<>>
    /\ handler_pc = "idle"
    /\ dropped = FALSE

\* Nothing is published.
PublishIdle ==
    /\ queues = [h \in Handles |-> <<>>]
    /\ waiting = {}

Init ==
    /\ ChannelIdle
    /\ PublishIdle
    /\ routes \in RouteTables \cup CollidingTables
    /\ protocol \in {"Naked", "Multiplexed", "Extensions"}
    /\ pc = "finalize"
    /\ loop_joined = FALSE
    /\ loop_close_status = -1
    /\ subscriptions = <<>>
    /\ nextId = 1
    /\ broker = {<<TopicA, Other>>}
    /\ joined = [t \in Topics |-> 0]
    /\ subscribed = [t \in Topics |-> 0]
    /\ unsubscribed = [t \in Topics |-> 0]
    /\ unsubAll = 0
    /\ taken = 0
    /\ cur = NoMsg
    /\ req = NoReq
    /\ effects = <<>>

\* The ids of the routes at the positions of a pair.
PairIds(items, q) == <<items[q[1]].id, items[q[2]].id>>
FinalizeEff(items) ==
    [k          |-> "finalize",
     compared   |-> [n \in 1..Len(Pairs(items)) |-> PairIds(items, Pairs(items)[n])],
     collisions |-> [n \in 1..Len(collisions(items)) |-> PairIds(items, collisions(items)[n])]]

\* WebSocketRouter::finalize at startup: Err(Collisions) when some pair of
\* routes collides, and the server does not start; Ok otherwise, and an
\* upgrade request can be served.
Finalize ==
    /\ pc = "finalize"
    /\ \E order \in KindOrders :
          LET items == AllRoutes(routes, order) IN
          /\ effects' = <<FinalizeEff(items)>>
          /\ pc' = IF collisions(items) # <<>> THEN "collisions"
                   ELSE IF protocol = "Extensions" THEN "dispatch_ws" ELSE "request"
    /\ UNCHANGED <<routes, protocol, subscriptions, nextId, broker, joined, subscribed,
                   unsubscribed, unsubAll, taken, cur, req, loopVars>>
    /\ UNCHANGED <<channelVars, publishVars>>

\* --------------------------------------------- WebSocketRouter::handle

\* handle, up to the response: the Join event on the request decides between
\* the 101 response and a failure response.
Handle ==
    /\ pc = "request"
    /\ \E topic \in {TopicA, TopicB} :
       \E run \in handle_message(routes, "Join", topic) :
          LET conn == Conn(nextId, topic) IN
          /\ subscriptions' = <<conn>>
          /\ nextId' = nextId + 1
          /\ IF run.end = "Ok"
             THEN /\ effects' = <<EventEff("Join", conn, <<>>, run), ResponseEff(TRUE, 0)>>
                  /\ joined' = Bump(joined, topic)
                  /\ pc' = "upgrade"
             ELSE /\ effects' = <<EventEff("Join", conn, <<>>, run),
                                  ResponseEff(FALSE, run.status)>>
                  /\ joined' = joined
                  /\ pc' = "rejected"
    /\ cur' = NoMsg
    /\ req' = NoReq
    /\ UNCHANGED <<routes, protocol, broker, subscribed, unsubscribed, unsubAll, taken>>
    /\ UNCHANGED loopVars
    /\ UNCHANGED <<channelVars, publishVars>>

\* The task, on_upgrade.await succeeded: the connection is subscribed to the
\* broker under the request's topic and the message loop starts.
UpgradeOk ==
    /\ pc = "upgrade"
    /\ LET topic == subscriptions[1].topic IN
       /\ broker' = BrokerSubscribe(broker, topic, Ws)
       /\ subscribed' = Bump(subscribed, topic)
       /\ effects' = <<BrokerEff("subscribe", topic)>>
    /\ pc' = "loop"
    /\ cur' = NoMsg
    /\ req' = NoReq
    /\ UNCHANGED <<routes, protocol, subscriptions, nextId, joined, unsubscribed,
                   unsubAll, taken>>
    /\ UNCHANGED loopVars
    /\ UNCHANGED <<channelVars, publishVars>>

\* The task, on_upgrade.await failed: the task returns at once.
UpgradeErr ==
    /\ pc = "upgrade"
    /\ pc' = "done"
    /\ effects' = <<>>
    /\ cur' = NoMsg
    /\ req' = NoReq
    /\ UNCHANGED <<routes, protocol, subscriptions, nextId, broker, joined,
                   subscribed, unsubscribed, unsubAll, taken>>
    /\ UNCHANGED loopVars
    /\ UNCHANGED <<channelVars, publishVars>>

\* ------------------------------------------------- the connection tasks

\* The Text and Binary messages a client sends: every body as Text, two of
\* them as Binary too.
Messages ==
    { [opcode |-> "Text", body |-> b] : b \in Bodies } \cup
    { [opcode |-> "Binary", body |-> b]
        : b \in {<<DataMsg(TopicA, Hi)>>, <<Control(SUBSCRIBE, TopicB)>>} }

\* After the loop (both tasks): unsubscribe_all, then the Leave event on the
\* first logical Connection; indexing an empty subscriptions vector panics.
Teardown(prefix) ==
    /\ broker' = BrokerUnsubscribeAll(broker, Ws)
    /\ unsubAll' = unsubAll + 1
    /\ unsubscribed' = [t \in Topics |->
            unsubscribed[t] + IF t \in Registered(broker, Ws) THEN 1 ELSE 0]
    /\ IF subscriptions = <<>>
       THEN /\ effects' = prefix \o <<BrokerEff("unsubscribe_all", <<>>), PanicEff>>
            /\ pc' = "panicked"
       ELSE \E run \in handle_message(routes, "Leave", subscriptions[1].topic) :
            /\ effects' = prefix \o <<BrokerEff("unsubscribe_all", <<>>),
                                      EventEff("Leave", subscriptions[1], <<OK>>, run)>>
            /\ pc' = "done"
    /\ UNCHANGED <<routes, protocol, subscriptions, nextId, joined, subscribed>>

\* ws.next() yields None: the channel has no more messages.
NextNone ==
    /\ pc = "loop"
    /\ cur' = NoMsg
    /\ req' = NoReq
    /\ taken' = taken
    /\ Teardown(<<>>)
    /\ UNCHANGED loopVars
    /\ UNCHANGED <<channelVars, publishVars>>

\* ws.next() yields a Ping or Pong: the loop continues.
NextPingPong ==
    /\ pc = "loop"
    /\ taken < MaxMessages
    /\ \E op \in {"Ping", "Pong"} : cur' = Msg(op, <<>>, FALSE)
    /\ taken' = taken + 1
    /\ req' = NoReq
    /\ effects' = <<>>
    /\ UNCHANGED <<routes, protocol, pc, subscriptions, nextId, broker, joined,
                   subscribed, unsubscribed, unsubAll>>
    /\ UNCHANGED loopVars
    /\ UNCHANGED <<channelVars, publishVars>>

\* A Close arm that leaves the loop only when it answers the Close.
NextCloseStays ==
    /\ pc = "loop"
    /\ \E body \in CloseBodies, should \in BOOLEAN :
          /\ cur' = Msg("Close", body, should)
          /\ IF should
             THEN Teardown(<<CloseEff(close_status(body))>>)
             ELSE /\ effects' = <<>>
                  /\ UNCHANGED <<routes, protocol, pc, subscriptions, nextId, broker,
                                 joined, subscribed, unsubscribed, unsubAll>>
    /\ taken' = taken + 1
    /\ req' = NoReq
    /\ UNCHANGED loopVars
    /\ UNCHANGED <<channelVars, publishVars>>

\* ws.next() yields a Close: a Close with the normalized status is sent when
\* should_send_close(), and the loop is left.
NextClose ==
    /\ pc = "loop"
    /\ \E body \in CloseBodies, should \in BOOLEAN :
          /\ cur' = Msg("Close", body, should)
          /\ Teardown(IF should THEN <<CloseEff(close_status(body))>> ELSE <<>>)
    /\ taken' = taken + 1
    /\ req' = NoReq
    /\ UNCHANGED loopVars
    /\ UNCHANGED <<channelVars, publishVars>>

\* websocket_task_naked, a Text or Binary message: a Message event on the
\* request, whose result is dropped.
NextMessageNaked ==
    /\ pc = "loop"
    /\ protocol = "Naked"
    /\ taken < MaxMessages
    /\ \E m \in Messages :
       \E run \in handle_message(routes, "Message", subscriptions[1].topic) :
          /\ cur' = Msg(m.opcode, m.body, FALSE)
          /\ effects' = <<EventEff("Message", subscriptions[1], Flatten(m.body), run)>>
    /\ taken' = taken + 1
    /\ req' = NoReq
    /\ UNCHANGED <<routes, protocol, pc, subscriptions, nextId, broker, joined,
                   subscribed, unsubscribed, unsubAll>>
    /\ UNCHANGED loopVars
    /\ UNCHANGED <<channelVars, publishVars>>

\* websocket_task_multiplexed, a message classified Ok: a Message event on
\* the subscription of its topic, with the Data that follows the separator.
MultiplexedData(request) ==
    /\ \E run \in handle_message(routes, "Message", subscriptions[request.sub].topic) :
          effects' = <<EventEff("Message", subscriptions[request.sub],
                                Remaining(request.data), run)>>
    /\ UNCHANGED <<pc, subscriptions, nextId, broker, joined, subscribed, unsubscribed>>

\* websocket_task_multiplexed, a classification error or a control message
\* handle_control rejects: the error text is sent.
MultiplexedError(body) ==
    /\ effects' = <<SendEff(body)>>
    /\ UNCHANGED <<pc, subscriptions, nextId, broker, joined, subscribed, unsubscribed>>

\* A test that never finds the topic.
IsSubscribedNever(subs, topic) == FALSE
\* A test that looks at the first entry only.
IsSubscribedFirst(subs, topic) == subs # <<>> /\ subs[1].topic = topic

\* websocket_task_multiplexed, subscriptions.iter().any(|r| r.topic() == &topic)
IsSubscribed(subs, topic) == \E i \in 1..Len(subs) : subs[i].topic = topic

\* websocket_task_multiplexed, SUBSCRIBE topic.
MultiplexedSubscribe(topic) ==
    IF IsSubscribed(subscriptions, topic)
    THEN MultiplexedError(<<"ERR", "Already Subscribed">>)
    ELSE IF subscriptions = <<>>
    THEN \* subscriptions[0] on an empty vector
         /\ effects' = <<PanicEff>>
         /\ pc' = "panicked"
         /\ UNCHANGED <<subscriptions, nextId, broker, joined, subscribed, unsubscribed>>
    ELSE LET new_request == Conn(nextId, topic) IN
         \E join \in handle_message(routes, "Join", topic) :
            IF join.end = "Ok"
            THEN /\ effects' = <<EventEff("Join", new_request, <<>>, join),
                                 BrokerEff("subscribe", topic)>>
                 /\ broker' = BrokerSubscribe(broker, topic, Ws)
                 /\ subscriptions' = Append(subscriptions, new_request)
                 /\ nextId' = nextId + 1
                 /\ joined' = Bump(joined, topic)
                 /\ subscribed' = Bump(subscribed, topic)
                 /\ UNCHANGED <<pc, unsubscribed>>
            ELSE /\ effects' = <<EventEff("Join", new_request, <<>>, join),
                                 SendEff(<<"ERR", ToString(join.status)>>)>>
                 /\ UNCHANGED <<pc, subscriptions, nextId, broker, joined,
                                subscribed, unsubscribed>>

\* websocket_task_multiplexed, UNSUBSCRIBE topic.
MultiplexedUnsubscribe(topic) ==
    LET removed == remove_topic(subscriptions, topic) IN
    IF ~removed.found
    THEN MultiplexedError(<<"ERR", "Not Subscribed">>)
    ELSE LET leave_req == removed.removed[1] IN
         /\ subscriptions' = removed.subs
         /\ broker' = BrokerUnsubscribe(broker, leave_req.topic, Ws)
         /\ unsubscribed' = IF <<leave_req.topic, Ws>> \in broker
                            THEN Bump(unsubscribed, leave_req.topic) ELSE unsubscribed
         /\ \E leave \in handle_message(routes, "Leave", leave_req.topic) :
               effects' = <<BrokerEff("unsubscribe", leave_req.topic),
                            EventEff("Leave", leave_req, <<OK>>, leave)>>
         /\ UNCHANGED <<pc, nextId, joined, subscribed>>

\* websocket_task_multiplexed, one Text or Binary message.
NextMessageMultiplexed ==
    /\ pc = "loop"
    /\ protocol = "Multiplexed"
    /\ taken < MaxMessages
    /\ \E m \in Messages :
          LET request == multiplex_get_request(NewData(m.body), subscriptions) IN
          /\ cur' = Msg(m.opcode, m.body, FALSE)
          /\ req' = [class |-> request.class, sub |-> request.sub, topic |-> request.topic]
          /\ IF request.class = "Ok" THEN MultiplexedData(request)
             ELSE IF request.class = "ControlMessage"
             THEN LET control == handle_control(request.data) IN
                  IF ~control.ok THEN MultiplexedError(control.body)
                  ELSE IF control.action = "SUBSCRIBE"
                  THEN MultiplexedSubscribe(control.topic)
                  ELSE MultiplexedUnsubscribe(control.topic)
             ELSE MultiplexedError(MultiplexErrorText(request.class))
    /\ taken' = taken + 1
    /\ UNCHANGED <<routes, protocol, unsubAll>>
    /\ UNCHANGED loopVars
    /\ UNCHANGED <<channelVars, publishVars>>

\* ------------------------------------ server.rs: the Rocket event loop

\* Rocket::route_event: the routes of the event kind in list order; a run
\* ends Ok (Success), Err (Failure, a panic being the internal server error)
\* or Exhausted (Forward: no route settled the event).
route_event(table, event, topic) == RunRoutes(table[event], topic)

\* The final ch.close(WebSocketStatus::default_response(close_status)).
DefaultCloseEff(status) == [k |-> "close_default", of |-> status]

\* Text and Binary messages a client of the event loop sends.
LoopMessages ==
    { [opcode |-> "Text", body |-> <<Hi>>], [opcode |-> "Binary", body |-> <<Hi, Hi>>] }

\* hyper_service_fn with an upgrade: dispatch_ws builds the response (101
\* unless the extensions are in error) without running any handler, the
\* response is sent, and ws_event_loop is entered.
DispatchWs ==
    /\ pc = "dispatch_ws"
    /\ \E topic \in {TopicA, TopicB}, is_err \in BOOLEAN :
          /\ subscriptions' = <<Conn(nextId, topic)>>
          /\ effects' = <<ResponseEff(~is_err, IF is_err THEN -1 ELSE 0)>>
          /\ pc' = IF is_err THEN "loop_refused" ELSE "loop_upgrade"
    /\ nextId' = nextId + 1
    /\ cur' = NoMsg
    /\ req' = NoReq
    /\ UNCHANGED <<routes, protocol, broker, joined, subscribed, unsubscribed,
                   unsubAll, taken, loopVars>>
    /\ UNCHANGED <<channelVars, publishVars>>

\* ws_event_loop, upgrade.await succeeded: the channel is built and the
\* loop starts; nothing is subscribed yet.
LoopUpgradeOk ==
    /\ pc = "loop_upgrade"
    /\ pc' = "event_loop"
    /\ effects' = <<>>
    /\ cur' = NoMsg
    /\ req' = NoReq
    /\ UNCHANGED <<routes, protocol, subscriptions, nextId, broker, joined,
                   subscribed, unsubscribed, unsubAll, taken, loopVars>>
    /\ UNCHANGED <<channelVars, publishVars>>

\* ws_event_loop, upgrade.await failed (it does whenever the response was
\* not the 101): todo!() panics.
LoopUpgradeErr ==
    /\ pc \in {"loop_upgrade", "loop_refused"}
    /\ pc' = "panicked"
    /\ effects' = <<PanicEff>>
    /\ cur' = NoMsg
    /\ req' = NoReq
    /\ UNCHANGED <<routes, protocol, subscriptions, nextId, broker, joined,
                   subscribed, unsubscribed, unsubAll, taken, loopVars>>
    /\ UNCHANGED <<channelVars, publishVars>>

\* ws_event_loop after its loop: unsubscribe_all on the registry reg, a
\* Message event with empty data in place of the Leave, a close with its
\* status when that fails, and the default close.
LoopTeardown(prefix, reg, status) ==
    /\ broker' = BrokerUnsubscribeAll(reg, Ws)
    /\ unsubAll' = unsubAll + 1
    /\ unsubscribed' = [t \in Topics |->
            unsubscribed[t] + IF t \in Registered(reg, Ws) THEN 1 ELSE 0]
    /\ \E run \in route_event(routes, "Message", subscriptions[1].topic) :
          effects' = prefix
                     \o <<BrokerEff("unsubscribe_all", <<>>),
                          EventEff("Message", subscriptions[1], <<>>, run)>>
                     \o (IF run.end = "Err" THEN <<CloseEff(run.status)>> ELSE <<>>)
                     \o <<DefaultCloseEff(status)>>
    /\ pc' = "done"

\* ch.next() yields None.
LoopNone ==
    /\ pc = "event_loop"
    /\ cur' = NoMsg
    /\ req' = NoReq
    /\ LoopTeardown(<<>>, broker, loop_close_status)
    /\ UNCHANGED <<routes, protocol, subscriptions, nextId, joined, subscribed,
                   taken, loopVars>>
    /\ UNCHANGED <<channelVars, publishVars>>

\* ch.next() yields a Close: its status is decoded when it carries a body,
\* and the loop is left.
LoopClose ==
    /\ pc = "event_loop"
    /\ \E body \in CloseBodies :
          LET status == IF body = <<>> THEN loop_close_status
                        ELSE DecodeStatus(Head(body)) IN
          /\ cur' = Msg("Close", body, FALSE)
          /\ loop_close_status' = status
          /\ LoopTeardown(<<>>, broker, status)
    /\ taken' = taken + 1
    /\ req' = NoReq
    /\ UNCHANGED <<routes, protocol, subscriptions, nextId, joined, subscribed,
                   loop_joined>>
    /\ UNCHANGED <<channelVars, publishVars>>

\* ch.next() yields a message of any other opcode: panic!().
LoopOtherOpcode ==
    /\ pc = "event_loop"
    /\ taken < MaxMessages
    /\ \E op \in {"Ping", "Pong"} : cur' = Msg(op, <<>>, FALSE)
    /\ taken' = taken + 1
    /\ req' = NoReq
    /\ effects' = <<PanicEff>>
    /\ pc' = "panicked"
    /\ UNCHANGED <<routes, protocol, subscriptions, nextId, broker, joined,
                   subscribed, unsubscribed, unsubAll, loopVars>>
    /\ UNCHANGED <<channelVars, publishVars>>

\* An end of the iteration that goes on with the loop whatever the outcome.
LoopOutcomeGoesOn(prefix, o, reg) ==
    /\ effects' = prefix
    /\ broker' = reg
    /\ pc' = "event_loop"
    /\ UNCHANGED <<unsubscribed, unsubAll>>

\* The end of an iteration: Success goes on with the loop, Forward leaves
\* it, Failure closes with the status and leaves it.
LoopOutcome(prefix, o, reg) ==
    IF o.end = "Ok"
    THEN /\ effects' = prefix
         /\ broker' = reg
         /\ pc' = "event_loop"
         /\ UNCHANGED <<unsubscribed, unsubAll>>
    ELSE LoopTeardown(prefix \o (IF o.end = "Err" THEN <<CloseEff(o.status)>> ELSE <<>>),
                      reg, loop_close_status)

\* ch.next() yields a Text or Binary message: the first one is routed as a
\* Join (and as a Message when the Join routes forward it), every later one
\* as a Message.
LoopMessage ==
    /\ pc = "event_loop"
    /\ taken < MaxMessages
    /\ \E m \in LoopMessages :
          LET conn    == subscriptions[1]
              topic   == conn.topic
              payload == Flatten(m.body)
              reg     == BrokerSubscribe(broker, topic, Ws)
              sub     == BrokerEff("subscribe", topic)
          IN
          /\ cur' = Msg(m.opcode, m.body, FALSE)
          /\ IF ~loop_joined
             THEN \E j \in route_event(routes, "Join", topic) :
                    LET join == EventEff("Join", conn, payload, j) IN
                    CASE j.end = "Exhausted" ->
                           /\ \E o \in route_event(routes, "Message", topic) :
                                 LoopOutcome(<<join, sub,
                                               EventEff("Message", conn, payload, o)>>,
                                             o, reg)
                           /\ subscribed' = Bump(subscribed, topic)
                           /\ joined' = joined
                      [] j.end = "Ok" ->
                           /\ LoopOutcome(<<join, sub>>, j, reg)
                           /\ subscribed' = Bump(subscribed, topic)
                           /\ joined' = Bump(joined, topic)
                      [] j.end = "Err" ->
                           /\ LoopOutcome(<<join>>, j, broker)
                           /\ UNCHANGED <<subscribed, joined>>
             ELSE /\ \E o \in route_event(routes, "Message", topic) :
                        LoopOutcome(<<EventEff("Message", conn, payload, o)>>, o, broker)
                  /\ UNCHANGED <<subscribed, joined>>
    /\ loop_joined' = TRUE
    /\ taken' = taken + 1
    /\ req' = NoReq
    /\ UNCHANGED <<routes, protocol, subscriptions, nextId, loop_close_status>>
    /\ UNCHANGED <<channelVars, publishVars>>


Next ==
    \/ Finalize
    \/ Handle
    \/ UpgradeOk
    \/ UpgradeErr
    \/ NextNone
    \/ NextPingPong
    \/ NextClose
    \/ NextMessageNaked
    \/ NextMessageMultiplexed
    \/ DispatchWs
    \/ LoopUpgradeOk
    \/ LoopUpgradeErr
    \/ LoopNone
    \/ LoopClose
    \/ LoopOtherOpcode
    \/ LoopMessage

Spec == Init /\ [][Next]_vars

\* ------------------------------ WebsocketChannel (channels/websockets.rs)

\* The capacity of the message channel (mpsc::channel(1) in
\* WebsocketChannel::new) and of a data channel (mpsc::channel(1) in
\* message_handler and send_message).
MESSAGE_CAPACITY == 1
DATA_CAPACITY == 1

\* The masking key of the client's frames, as the four bytes of the wire.
ClientMask == <<1, 2, 3, 4>>

Bit(x, i) == (x \div (2 ^ i)) % 2
XorBit(a, b, i) == ((Bit(a, i) + Bit(b, i)) % 2) * (2 ^ i)
\* a ^ b on u8.
XorByte(a, b) ==
    XorBit(a, b, 0) + XorBit(a, b, 1) + XorBit(a, b, 2) + XorBit(a, b, 3)
    + XorBit(a, b, 4) + XorBit(a, b, 5) + XorBit(a, b, 6) + XorBit(a, b, 7)

\* The bytes a client puts on the wire for a payload: each byte XORed with
\* the key byte of its position.
Masked(bytes, mask, start) ==
    [i \in 1..Len(bytes) |-> XorByte(bytes[i], mask[((start + i - 1) % 4) + 1])]

\* A frame of the client: fin bit, opcode, payload before masking.
Frame(fin, opcode, payload) == [fin |-> fin, opcode |-> opcode, payload |-> payload]

\* What the transport carries: a frame header, one payload byte, or bytes
\* that are no frame header. frame is the position of the frame the item
\* belongs to among the client's frames.
HeaderItem(i, f) ==
    [kind |-> "header", frame |-> i, fin |-> f.fin, opcode |-> f.opcode,
     mask |-> ClientMask, len |-> Len(f.payload), b |-> 0]
ByteItem(i, b) ==
    [kind |-> "byte", frame |-> i, fin |-> FALSE, opcode |-> "",
     mask |-> <<>>, len |-> 0, b |-> b]
BadItem ==
    [kind |-> "bad", frame |-> 0, fin |-> FALSE, opcode |-> "",
     mask |-> <<>>, len |-> 0, b |-> 0]

FrameWire(fs, i) ==
    <<HeaderItem(i, fs[i])>>
    \o [j \in 1..Len(fs[i].payload) |->
            ByteItem(i, Masked(fs[i].payload, ClientMask, 0)[j])]
WireOf(fs) == Flatten([i \in 1..Len(fs) |-> FrameWire(fs, i)])

\* What a client sends: nothing, two empty messages, one message of one
\* frame, a message of two frames (the first one empty, or both with a
\* payload), and a continuation frame that continues nothing.
ClientFrames ==
    { <<>>,
      <<Frame(TRUE, "Text", <<>>), Frame(TRUE, "Text", <<>>)>>,
      <<Frame(TRUE, "Text", Hi)>>,
      <<Frame(FALSE, "Text", <<>>), Frame(TRUE, "Continuation", Hi)>>,
      <<Frame(FALSE, "Text", Hi), Frame(TRUE, "Continuation", Hi)>>,
      <<Frame(TRUE, "Text", <<>>), Frame(TRUE, "Continuation", <<>>)>> }

\* How the transport ends once all of that is delivered: end-of-stream, a
\* read error, or a client that stays connected and silent.
WireEnds == {"eof", "error", "open"}

\* An outbound message: its header's opcode and fin bit, the chunks its
\* data channel holds, and whether the producer still holds the sender.
\* id is its place on the send queue, first the opcode and all the chunks it
\* was sent with.
OutMsg(opcode, fin, chunks, open) ==
    [opcode |-> opcode, fin |-> fin, chunks |-> chunks, open |-> open,
     id |-> 0, first |-> opcode, all |-> chunks]

\* WebsocketMessage::new(binary, data).
WebsocketMessage_new(binary, chunks, open) ==
    OutMsg(IF binary THEN "Binary" ELSE "Text", FALSE, chunks, open)

\* status.to_string() of a close status, taken as its decimal digits.
StatusText(status) ==
    <<48 + ((status \div 1000) % 10), 48 + ((status \div 100) % 10),
      48 + ((status \div 10) % 10), 48 + (status % 10)>>

\* WebsocketMessage::close(status), 0 standing for None: a data channel
\* that holds the status text, if any, and whose sender is dropped.
WebsocketMessage_close(status) ==
    OutMsg("Close", TRUE, IF status = 0 THEN <<>> ELSE <<StatusText(status)>>, FALSE)

\* A send queue, every message with its place on it.
Numbered(q) == [i \in 1..Len(q) |-> [q[i] EXCEPT !.id = i]]

\* What the handlers and the broker have put on the send queue.
SendQueues ==
    { Numbered(q) : q \in
        { <<>>,
          <<WebsocketMessage_new(FALSE, <<Hi>>, FALSE)>>,
          <<WebsocketMessage_close(0)>>,
          <<WebsocketMessage_close(POLICY_VIOLATION)>>,
          <<WebsocketMessage_new(FALSE, <<>>, TRUE), WebsocketMessage_close(0)>>,
          <<WebsocketMessage_new(FALSE, <<Hi>>, FALSE),
            WebsocketMessage_new(TRUE, <<Hi, TopicA>>, FALSE)>>,
          <<WebsocketMessage_close(0), WebsocketMessage_new(FALSE, <<Hi>>, FALSE)>>,
          <<WebsocketMessage_close(0), WebsocketMessage_close(0)>> } }

NewChan == [buf |-> <<>>, open |-> TRUE]

\* message_handler after the upgrade: the first data channel, no message
\* in flight either way.
ChannelInit ==
    /\ PublishIdle
    /\ routes = EmptyTable
    /\ protocol = "Naked"
    /\ pc = "channel"
    /\ loop_joined = FALSE
    /\ loop_close_status = -1
    /\ subscriptions = <<>>
    /\ nextId = 1
    /\ broker = {}
    /\ joined = [t \in Topics |-> 0]
    /\ subscribed = [t \in Topics |-> 0]
    /\ unsubscribed = [t \in Topics |-> 0]
    /\ unsubAll = 0
    /\ taken = 0
    /\ cur = NoMsg
    /\ req = NoReq
    /\ effects = <<>>
    /\ frames \in ClientFrames
    /\ \E bad \in BOOLEAN :
          wire = WireOf(frames) \o (IF bad THEN <<BadItem>> ELSE <<>>)
    /\ wire_end \in WireEnds
    /\ read_buf = <<>>
    /\ running_message = <<>>
    /\ data_chans = <<NewChan>>
    /\ data_tx = 1
    /\ data_rx = 1
    /\ message_tx = <<>>
    /\ sending = <<>>
    /\ continue_fut = <<>>
    /\ consumer = <<>>
    /\ broker_rx \in SendQueues
    /\ outgoing_message = <<>>
    /\ written = <<>>
    /\ handler_pc = "select"
    /\ dropped = FALSE

\* The guards of the select! branches (message_handler, the two flags
\* computed at the top of the loop).
next_message_always == TRUE
next_message == running_message = <<>>
broker_ready_always == TRUE
broker_ready == outgoing_message = <<>>

\* raw_ws.io.read_buf while the transport has something to deliver: some
\* of it, at least one item, is appended to the buffer.
ReadSome ==
    \E k \in 1..Len(wire) :
       /\ read_buf' = read_buf \o Take0(wire, k)
       /\ wire' = Drop0(wire, k)

\* read_header, decode returns Ok(None) and the read brings bytes: the
\* loop of read_header goes round.
ReadHeaderRead ==
    /\ handler_pc = "select"
    /\ next_message
    /\ read_buf = <<>>
    /\ wire # <<>>
    /\ ReadSome
    /\ UNCHANGED <<dropped, frames, wire_end, running_message, data_tx, data_rx, data_chans,
                   message_tx, sending, continue_fut, consumer, broker_rx,
                   outgoing_message, written, handler_pc>>
    /\ UNCHANGED <<routerVars, publishVars>>

\* read_header, decode returns Ok(None) and the read returns Ok(0) at the
\* end of the stream: the arm `_ => ()` is taken and the loop of
\* read_header goes round with nothing changed.
ReadHeaderEndOfStream ==
    /\ handler_pc = "select"
    /\ next_message
    /\ read_buf = <<>>
    /\ wire = <<>>
    /\ wire_end = "eof"
    /\ UNCHANGED vars

\* read_header, the read fails: Some(Err), and message_handler breaks.
ReadHeaderIoError ==
    /\ handler_pc = "select"
    /\ next_message
    /\ read_buf = <<>>
    /\ wire = <<>>
    /\ wire_end = "error"
    /\ handler_pc' = "break"
    /\ continue_fut' = <<>>
    /\ UNCHANGED <<dropped, frames, wire, wire_end, read_buf, running_message, data_tx, data_rx,
                   data_chans, message_tx, sending, consumer, broker_rx,
                   outgoing_message, written>>
    /\ UNCHANGED <<routerVars, publishVars>>

\* read_header, decode fails on what heads the buffer: Some(Err), and
\* message_handler breaks.
ReadHeaderMalformed ==
    /\ handler_pc = "select"
    /\ next_message
    /\ read_buf # <<>>
    /\ Head(read_buf).kind # "header"
    /\ handler_pc' = "break"
    /\ continue_fut' = <<>>
    /\ UNCHANGED <<dropped, frames, wire, wire_end, read_buf, running_message, data_tx, data_rx,
                   data_chans, message_tx, sending, consumer, broker_rx,
                   outgoing_message, written>>
    /\ UNCHANGED <<routerVars, publishVars>>

\* send_message after message_tx.send has returned: the RunningMessage
\* takes what the buffer holds of the payload, and a fin frame replaces
\* data_tx (dropping the old sender) and data_rx.
SendMessageRest(header, buf) ==
    LET n == Min(Len(buf), header.len) IN
    /\ running_message' = <<[current |-> Take0(buf, n), remaining |-> header.len,
                             cur |-> 0, mask |-> header.mask]>>
    /\ read_buf' = Drop0(buf, n)
    /\ IF header.fin
       THEN /\ data_chans' = Append([data_chans EXCEPT ![data_tx].open = FALSE], NewChan)
            /\ data_tx' = Len(data_chans) + 1
            /\ data_rx' = Len(data_chans) + 1
       ELSE /\ data_rx' = 0
            /\ UNCHANGED <<data_chans, data_tx>>

\* The first branch of select!: read_header returns Some(Ok(header)) and
\* send_message runs. With data_rx present the message is sent to the
\* consumer; while the message channel is full send_message waits there,
\* inside the body of the branch.
ReadHeaderOk ==
    /\ handler_pc = "select"
    /\ next_message
    /\ read_buf # <<>>
    /\ Head(read_buf).kind = "header"
    /\ LET header == Head(read_buf)
           buf == Tail(read_buf)
           message == [header |-> header, data |-> data_rx]
       IN  IF data_rx # 0 /\ ~dropped /\ Len(message_tx) >= MESSAGE_CAPACITY
           THEN /\ handler_pc' = "send_message"
                /\ sending' = <<message>>
                /\ read_buf' = buf
                /\ data_rx' = 0
                /\ UNCHANGED <<running_message, data_chans, data_tx, message_tx>>
           ELSE /\ message_tx' = IF data_rx # 0 /\ ~dropped
                                 THEN Append(message_tx, message)
                                 ELSE message_tx
                /\ SendMessageRest(header, buf)
                /\ UNCHANGED <<handler_pc, sending>>
    /\ continue_fut' = <<>>
    /\ UNCHANGED <<dropped, frames, wire, wire_end, consumer, broker_rx, outgoing_message, written>>
    /\ UNCHANGED <<routerVars, publishVars>>

\* send_message, message_tx.send returns once the consumer has made room,
\* or with an error (dropped by `let _e`) once the receiver is gone.
SendMessageResume ==
    /\ handler_pc = "send_message"
    /\ dropped \/ Len(message_tx) < MESSAGE_CAPACITY
    /\ message_tx' = IF dropped THEN message_tx ELSE Append(message_tx, sending[1])
    /\ SendMessageRest(sending[1].header, read_buf)
    /\ sending' = <<>>
    /\ handler_pc' = "select"
    /\ UNCHANGED <<dropped, frames, wire, wire_end, continue_fut, consumer, broker_rx,
                   outgoing_message, written>>
    /\ UNCHANGED <<routerVars, publishVars>>

\* continue_message up to its await: every byte of current is XORed with
\* the mask, and the first min(len, remaining) bytes are split off as the
\* chunk to send. A future that is already pending holds its chunk.
Unmasked(r) ==
    [i \in 1..Len(r.current) |->
        [r.current[i] EXCEPT !.b = XorByte(@, r.mask[((r.cur + i - 1) % 4) + 1])]]
ContinueChunk(r) ==
    IF continue_fut # <<>> THEN continue_fut[1]
    ELSE Take0(Unmasked(r), Min(Len(r.current), r.remaining))
ContinueRunning(r) ==
    IF continue_fut # <<>> THEN r
    ELSE [r EXCEPT !.current = Drop0(Unmasked(r), Min(Len(r.current), r.remaining)),
                   !.cur = (r.cur + Len(r.current)) % 4]
\* The receiver of the current data channel is gone: it went to the
\* consumer with its message, and the consumer has dropped everything.
DataReceiverDropped == dropped /\ data_rx # data_tx
DataRoom == DataReceiverDropped \/ Len(data_chans[data_tx].buf) < DATA_CAPACITY

\* The second branch of select!, its future polled while the data channel
\* is full: data_tx.send is pending and holds the chunk.
ContinueMessagePending ==
    /\ handler_pc = "select"
    /\ running_message # <<>>
    /\ continue_fut = <<>>
    /\ ~DataRoom
    /\ continue_fut' = <<ContinueChunk(running_message[1])>>
    /\ running_message' = <<ContinueRunning(running_message[1])>>
    /\ UNCHANGED <<dropped, frames, wire, wire_end, read_buf, data_tx, data_rx, data_chans,
                   message_tx, sending, consumer, broker_rx, outgoing_message,
                   written, handler_pc>>
    /\ UNCHANGED <<routerVars, publishVars>>

\* read_next_part: with remaining > 0 one more read into the buffer (its
\* error is dropped by `let _e`), else the RunningMessage is cleared.
\* remaining is assigned nowhere after send_message.
ReadNextPart(r) ==
    IF r.remaining > 0
    THEN /\ running_message' = <<r>>
         /\ IF wire # <<>>
            THEN ReadSome /\ UNCHANGED handler_pc
            ELSE /\ handler_pc' = IF wire_end = "open" THEN "read_next_part"
                                  ELSE handler_pc
                 /\ UNCHANGED <<wire, read_buf>>
    ELSE /\ running_message' = <<>>
         /\ UNCHANGED <<wire, read_buf, handler_pc>>

\* The second branch of select!: continue_message sends its chunk on
\* data_tx, then read_next_part runs in the body of the branch.
ContinueMessage ==
    /\ handler_pc = "select"
    /\ running_message # <<>>
    /\ DataRoom
    /\ data_chans' = IF DataReceiverDropped THEN data_chans
                      ELSE [data_chans EXCEPT
                              ![data_tx].buf = Append(@, ContinueChunk(running_message[1]))]
    /\ continue_fut' = <<>>
    /\ ReadNextPart(ContinueRunning(running_message[1]))
    /\ UNCHANGED <<dropped, frames, wire_end, data_tx, data_rx, message_tx, sending, consumer,
                   broker_rx, outgoing_message, written>>
    /\ UNCHANGED <<routerVars, publishVars>>

\* The third branch of select!: broker_rx.recv() yields the next outbound
\* message. The branch completes, so the other futures are dropped, a
\* pending continue_message with the chunk it holds among them.
BrokerRecv ==
    /\ handler_pc = "select"
    /\ broker_ready
    /\ broker_rx # <<>>
    /\ outgoing_message' = <<Head(broker_rx)>>
    /\ broker_rx' = Tail(broker_rx)
    /\ continue_fut' = <<>>
    /\ UNCHANGED <<dropped, frames, wire, wire_end, read_buf, running_message, data_tx, data_rx,
                   data_chans, message_tx, sending, consumer, written, handler_pc>>
    /\ UNCHANGED <<routerVars, publishVars>>

\* A frame on the wire; msg is the send-queue place of the message it was
\* written for.
WrittenFrame(fin, opcode, payload, msg) ==
    [fin |-> fin, opcode |-> opcode, payload |-> payload, msg |-> msg]

\* The chunk branch without the change of the opcode after the first frame.
WriteChunkKeepsOpcode ==
    /\ handler_pc = "select"
    /\ outgoing_message # <<>>
    /\ outgoing_message[1].chunks # <<>>
    /\ LET message == outgoing_message[1] IN
       /\ written' = Append(written,
                        WrittenFrame(FALSE, message.opcode, Head(message.chunks),
                                     message.id))
       /\ outgoing_message' = <<[message EXCEPT !.fin = FALSE,
                                                !.chunks = Tail(@)]>>
    /\ continue_fut' = <<>>
    /\ UNCHANGED <<dropped, frames, wire, wire_end, read_buf, running_message, data_tx, data_rx,
                   data_chans, message_tx, sending, consumer, broker_rx, handler_pc>>
    /\ UNCHANGED <<routerVars, publishVars>>

\* The fourth branch of select!, data.recv() yields Some(data): a frame
\* with fin = false, the opcode of the message's header and the chunk is
\* written, and the message goes on with the opcode 0x0.
WriteChunk ==
    /\ handler_pc = "select"
    /\ outgoing_message # <<>>
    /\ outgoing_message[1].chunks # <<>>
    /\ LET message == outgoing_message[1] IN
       /\ written' = Append(written,
                        WrittenFrame(FALSE, message.opcode, Head(message.chunks),
                                     message.id))
       /\ outgoing_message' = <<[message EXCEPT !.opcode = "Continuation",
                                                !.fin = FALSE,
                                                !.chunks = Tail(@)]>>
    /\ continue_fut' = <<>>
    /\ UNCHANGED <<dropped, frames, wire, wire_end, read_buf, running_message, data_tx, data_rx,
                   data_chans, message_tx, sending, consumer, broker_rx, handler_pc>>
    /\ UNCHANGED <<routerVars, publishVars>>

\* The fourth branch of select!, data.recv() yields None: an empty frame
\* with fin = true and the opcode of the current header ends the message.
WriteFin ==
    /\ handler_pc = "select"
    /\ outgoing_message # <<>>
    /\ outgoing_message[1].chunks = <<>>
    /\ ~outgoing_message[1].open
    /\ written' = Append(written, WrittenFrame(TRUE, outgoing_message[1].opcode, <<>>,
                                     outgoing_message[1].id))
    /\ outgoing_message' = <<>>
    /\ continue_fut' = <<>>
    /\ UNCHANGED <<dropped, frames, wire, wire_end, read_buf, running_message, data_tx, data_rx,
                   data_chans, message_tx, sending, consumer, broker_rx, handler_pc>>
    /\ UNCHANGED <<routerVars, publishVars>>

\* The third branch of select! after every sender of the send queue is
\* gone: broker_rx.recv() yields None at once, and the branch does nothing
\* ("TODO handle error"); the other futures are dropped as in any branch.
BrokerRecvNone ==
    /\ handler_pc = "select"
    /\ broker_ready
    /\ dropped
    /\ broker_rx = <<>>
    /\ continue_fut' = <<>>
    /\ UNCHANGED <<dropped, frames, wire, wire_end, read_buf, running_message, data_tx,
                   data_rx, data_chans, message_tx, sending, consumer, broker_rx,
                   outgoing_message, written, handler_pc>>
    /\ UNCHANGED <<routerVars, publishVars>>

\* The consumer drops the WebsocketChannel, every clone of its send handle
\* and the messages it holds: the receiver of the message channel, the
\* receivers of the data channels it was given and all senders of the send
\* queue are gone.
DropChannel ==
    /\ handler_pc \notin {"idle", "break"}
    /\ ~dropped
    /\ dropped' = TRUE
    /\ message_tx' = <<>>
    /\ consumer' = <<>>
    /\ UNCHANGED <<frames, wire, wire_end, read_buf, running_message, data_tx, data_rx,
                   data_chans, sending, continue_fut, broker_rx, outgoing_message,
                   written, handler_pc>>
    /\ UNCHANGED <<routerVars, publishVars>>

\* WebsocketChannel::next: the consumer takes a message.
ConsumerNext ==
    /\ handler_pc # "idle"
    /\ message_tx # <<>>
    /\ consumer' = Append(consumer,
                     [header |-> Head(message_tx).header, data |-> Head(message_tx).data,
                      got |-> <<>>, ended |-> FALSE])
    /\ message_tx' = Tail(message_tx)
    /\ UNCHANGED <<dropped, frames, wire, wire_end, read_buf, running_message, data_tx, data_rx,
                   data_chans, sending, continue_fut, broker_rx, outgoing_message,
                   written, handler_pc>>
    /\ UNCHANGED <<routerVars, publishVars>>

\* The consumer reads a message's data channel: the next chunk.
ConsumerRecv ==
    /\ \E i \in 1..Len(consumer) :
          /\ ~consumer[i].ended
          /\ data_chans[consumer[i].data].buf # <<>>
          /\ consumer' = [consumer EXCEPT
                            ![i].got = @ \o Head(data_chans[consumer[i].data].buf)]
          /\ data_chans' = [data_chans EXCEPT ![consumer[i].data].buf = Tail(@)]
    /\ UNCHANGED <<dropped, frames, wire, wire_end, read_buf, running_message, data_tx, data_rx,
                   message_tx, sending, continue_fut, broker_rx, outgoing_message,
                   written, handler_pc>>
    /\ UNCHANGED <<routerVars, publishVars>>

\* The consumer reads a message's data channel: None, the channel is
\* empty and its sender dropped, and the message has ended.
ConsumerEnd ==
    /\ \E i \in 1..Len(consumer) :
          /\ ~consumer[i].ended
          /\ data_chans[consumer[i].data].buf = <<>>
          /\ ~data_chans[consumer[i].data].open
          /\ consumer' = [consumer EXCEPT ![i].ended = TRUE]
    /\ UNCHANGED <<dropped, frames, wire, wire_end, read_buf, running_message, data_tx, data_rx,
                   data_chans, message_tx, sending, continue_fut, broker_rx,
                   outgoing_message, written, handler_pc>>
    /\ UNCHANGED <<routerVars, publishVars>>

ChannelNext ==
    \/ ReadHeaderRead
    \/ ReadHeaderEndOfStream
    \/ ReadHeaderIoError
    \/ ReadHeaderMalformed
    \/ ReadHeaderOk
    \/ SendMessageResume
    \/ ContinueMessagePending
    \/ ContinueMessage
    \/ BrokerRecv
    \/ BrokerRecvNone
    \/ WriteChunk
    \/ WriteFin
    \/ ConsumerNext
    \/ ConsumerRecv
    \/ ConsumerEnd
    \/ DropChannel

ChannelSpec == ChannelInit /\ [][ChannelNext]_vars

\* ------------------------------------------------------------- properties

\* The message the last step took, as one byte string.
CurBytes == Flatten(cur.body)
CurIsData == cur.opcode \in {"Text", "Binary"}
TopicsOf(subs) == { subs[i].topic : i \in 1..Len(subs) }

\* The offsets at which the separator occurs in a byte string.
SepOffsets(w) ==
    { i \in 0..(Len(w) - 2) : w[i + 1] = 194 /\ w[i + 2] = 183 }
\* w starts with the topic t followed by the separator.
HasTopicPrefix(w, t) ==
    /\ Len(w) >= Len(t) + 2
    /\ SubSeq(w, 1, Len(t)) = t
    /\ Len(t) \in SepOffsets(w)
    /\ \A i \in SepOffsets(w) : i >= Len(t)

EventsIn(effs) == SelectSeq(effs, LAMBDA e : e.k = "event")
KindIn(effs, kind) == SelectSeq(effs, LAMBDA e : e.k = kind)
EventsOf(effs, event) == SelectSeq(effs, LAMBDA e : e.k = "event" /\ e.event = event)
BrokerCalls(effs, op) == SelectSeq(effs, LAMBDA e : e.k = "broker" /\ e.op = op)

\* C1: on a multiplexed connection subscribed to T1 and T2, T1 # T2, a data
\* message T1<SEP>payload is dispatched as one Message event on the logical
\* Connection whose topic is T1, and as no event on any other Connection.
C1_DataOnlyToItsTopic ==
    (protocol = "Multiplexed" /\ CurIsData) =>
        \A i \in 1..Len(subscriptions) :
            (Len(subscriptions) >= 2 /\ HasTopicPrefix(CurBytes, subscriptions[i].topic)) =>
                /\ Len(EventsIn(effects)) = 1
                /\ \A j \in 1..Len(effects) :
                      effects[j].k = "event" =>
                          /\ effects[j].event = "Message"
                          /\ effects[j].conn = subscriptions[i]
                          /\ \A c \in 1..Len(effects[j].calls) :
                                effects[j].calls[c] \in
                                    { r.id : r \in { routes.Message[n] : n \in
                                        { m \in 1..Len(routes.Message) :
                                            Matches(routes.Message[m], subscriptions[i].topic) } } }

C1_Witness ==
    /\ protocol = "Multiplexed"
    /\ Len(subscriptions) = 2
    /\ CurBytes = DataMsg(subscriptions[2].topic, Hi)
    /\ Len(effects) = 1
    /\ effects[1].k = "event"
    /\ effects[1].conn = subscriptions[2]

\* C2: once the connection has been subscribed to the broker, the task does
\* not exit without having called broker.unsubscribe_all.
C2_UnsubscribeAllOnEveryExit ==
    (pc \in {"done", "panicked"} /\ \E t \in Topics : subscribed[t] > 0) => unsubAll >= 1

\* C3: when the task has ended, every Join that succeeded was subscribed
\* exactly once and unsubscribed exactly once, and the broker holds no
\* registration of the connection.
C3_JoinSubscribeUnsubscribePaired ==
    pc \in {"done", "panicked"} =>
        /\ \A t \in Topics : joined[t] = subscribed[t] /\ subscribed[t] = unsubscribed[t]
        /\ Registered(broker, Ws) = {}

\* C4: while the multiplexed task is in its loop, the subscription list
\* holds at least one logical Connection.
C4_SubscriptionsNeverEmpty ==
    (protocol = "Multiplexed" /\ pc = "loop") => Len(subscriptions) >= 1

\* C5: a message is classified by the first separator within its first
\* MAX_TOPIC_LENGTH + |SEP| bytes: at offset 0 a control message, at offset
\* k in 1..MAX_TOPIC_LENGTH a data message with the first k bytes as topic,
\* none in the window TopicNotPresent.
C5_Classification ==
    (protocol = "Multiplexed" /\ CurIsData) =>
        LET window  == Take0(CurBytes, MAX_TOPIC_LENGTH + 2)
            offsets == SepOffsets(window)
        IN  /\ offsets = {} => req.class = "TopicNotPresent"
            /\ 0 \in offsets => req.class = "ControlMessage"
            /\ \A k \in offsets :
                 (k >= 1 /\ \A i \in offsets : i >= k) =>
                    /\ k <= MAX_TOPIC_LENGTH
                    /\ req.class \in {"Ok", "NotSubscribed", "Utf8Error", "UrlError"}
                    /\ req.topic = SubSeq(CurBytes, 1, k)

\* A separator at offset MAX_TOPIC_LENGTH exactly: a data message, delivered.
C5_Witness ==
    /\ protocol = "Multiplexed"
    /\ CurBytes = DataMsg(LongTopic, Hi)
    /\ req.class = "Ok"
    /\ Len(effects) = 1
    /\ effects[1].k = "event"
    /\ effects[1].conn.topic = LongTopic

AlreadySubscribed == SendEff(<<"ERR", "Already Subscribed">>)

\* C6: a SUBSCRIBE for a topic already in the subscription list sends the one
\* text message ERR<SEP>Already Subscribed and does nothing else: no Join
\* event, no broker call, the list unchanged.
C6_AlreadySubscribed ==
    [][ (/\ protocol = "Multiplexed"
         /\ pc = "loop"
         /\ taken' = taken + 1
         /\ cur'.opcode \in {"Text", "Binary"}
         /\ \E t \in TopicsOf(subscriptions) : Flatten(cur'.body) = Control(SUBSCRIBE, t))
        => /\ effects' = <<AlreadySubscribed>>
           /\ subscriptions' = subscriptions
           /\ joined' = joined
           /\ subscribed' = subscribed
           /\ pc' = "loop" ]_vars

C6_Witness ==
    /\ protocol = "Multiplexed"
    /\ CurIsData
    /\ CurBytes = Control(SUBSCRIBE, TopicB)
    /\ TopicB \in TopicsOf(subscriptions)
    /\ effects = <<AlreadySubscribed>>

NotSubscribedText == SendEff(<<"ERR", "Not subscribed to topic">>)

\* C7: a data message whose topic prefix is a URI outside the subscription
\* list is answered with the NotSubscribed text and dispatches no event.
C7_NotSubscribed ==
    (protocol = "Multiplexed" /\ CurIsData) =>
        \A k \in 1..MAX_TOPIC_LENGTH :
            (/\ k \in SepOffsets(Take0(CurBytes, MAX_TOPIC_LENGTH + 2))
             /\ \A i \in SepOffsets(CurBytes) : i >= k
             /\ OriginValid(SubSeq(CurBytes, 1, k))
             /\ SubSeq(CurBytes, 1, k) \notin TopicsOf(subscriptions))
            => /\ effects = <<NotSubscribedText>>
               /\ pc = "loop"

C7_Witness ==
    /\ protocol = "Multiplexed"
    /\ CurIsData
    /\ CurBytes = DataMsg(TopicC, Hi)
    /\ TopicsOf(subscriptions) = {TopicA}
    /\ effects = <<NotSubscribedText>>

\* The status the normalization table of the spec gives a client's Close.
TableStatus(body) ==
    IF body = <<>> THEN OK
    ELSE IF Len(body[1]) < 2 THEN PROTOCOL_ERROR
    ELSE LET code == body[1][1] * 256 + body[1][2] IN
         CASE code \in {OK, GOING_AWAY, EXTENSION_REQUIRED} \cup (3000..4999) -> OK
           [] code \in {UNKNOWN_MESSAGE_TYPE, INVALID_DATA_TYPE, POLICY_VIOLATION,
                        MESSAGE_TOO_LARGE, INTERNAL_SERVER_ERROR} -> code
           [] OTHER -> PROTOCOL_ERROR

\* C8: a SUBSCRIBE for a topic T outside the subscription list runs one Join
\* event on a new logical Connection with topic T; when it succeeds the
\* broker is subscribed once for T and the Connection appended; when it
\* fails with status s nothing changes and ERR<SEP>s is sent.
C8_SubscribeNewTopic ==
    [][ \A t \in Topics :
        (/\ protocol = "Multiplexed"
         /\ pc = "loop"
         /\ taken' = taken + 1
         /\ cur'.opcode \in {"Text", "Binary"}
         /\ Flatten(cur'.body) = Control(SUBSCRIBE, t)
         /\ t \notin TopicsOf(subscriptions))
        => /\ Len(effects') = 2
           /\ effects'[1].k = "event"
           /\ effects'[1].event = "Join"
           /\ effects'[1].conn.topic = t
           /\ effects'[1].conn \notin { subscriptions[i] : i \in 1..Len(subscriptions) }
           /\ IF effects'[1].end = "Ok"
              THEN /\ effects'[2] = BrokerEff("subscribe", t)
                   /\ subscriptions' = Append(subscriptions, effects'[1].conn)
              ELSE /\ effects'[2] = SendEff(<<"ERR", ToString(effects'[1].status)>>)
                   /\ subscriptions' = subscriptions ]_vars

NotSubscribedControl == SendEff(<<"ERR", "Not Subscribed">>)

\* C9: an UNSUBSCRIBE for a topic outside the list only answers
\* ERR<SEP>Not Subscribed; for a topic in the list its Connection is removed,
\* broker.unsubscribe is called for the topic and then one Leave event is
\* dispatched on the removed Connection, whose result sends nothing.
C9_Unsubscribe ==
    [][ \A t \in Topics :
        (/\ protocol = "Multiplexed"
         /\ pc = "loop"
         /\ taken' = taken + 1
         /\ cur'.opcode \in {"Text", "Binary"}
         /\ Flatten(cur'.body) = Control(UNSUBSCRIBE, t))
        => IF t \notin TopicsOf(subscriptions)
           THEN /\ effects' = <<NotSubscribedControl>>
                /\ subscriptions' = subscriptions
           ELSE \E i \in 1..Len(subscriptions) :
                /\ subscriptions[i].topic = t
                /\ subscriptions' = [j \in 1..(Len(subscriptions) - 1) |->
                                        IF j < i THEN subscriptions[j] ELSE subscriptions[j + 1]]
                /\ Len(effects') = 2
                /\ effects'[1] = BrokerEff("unsubscribe", t)
                /\ effects'[2].k = "event"
                /\ effects'[2].event = "Leave"
                /\ effects'[2].conn = subscriptions[i] ]_vars

\* An UNSUBSCRIBE of the second topic whose Leave event failed.
C9_Witness ==
    /\ protocol = "Multiplexed"
    /\ CurIsData
    /\ CurBytes = Control(UNSUBSCRIBE, TopicB)
    /\ TopicsOf(subscriptions) = {TopicA}
    /\ Len(effects) = 2
    /\ effects[2].k = "event"
    /\ effects[2].conn.topic = TopicB
    /\ effects[2].end = "Err"

\* C10: a client's Close with should_send_close() sends one Close carrying
\* the normalized status (OK for 1001 GoingAway) and then calls
\* broker.unsubscribe_all once, with or without a Leave route.
C10_CloseThenUnsubscribeAll ==
    (cur.opcode = "Close" /\ cur.should_send_close) =>
        /\ Len(effects) >= 2
        /\ effects[1] = CloseEff(TableStatus(cur.body))
        /\ cur.body = <<CodeBytes(GOING_AWAY)>> => effects[1].status = OK
        /\ effects[2] = BrokerEff("unsubscribe_all", <<>>)
        /\ Len(KindIn(effects, "close")) = 1
        /\ Len(BrokerCalls(effects, "unsubscribe_all")) = 1
        /\ unsubAll = 1

C10_Witness ==
    /\ cur.opcode = "Close"
    /\ cur.should_send_close
    /\ cur.body = <<CodeBytes(GOING_AWAY)>>
    /\ routes.Leave = <<>>
    /\ effects[1] = CloseEff(OK)
    /\ pc = "done"

\* C11: the status of the Close sent for a client's Close follows the
\* normalization table: no body gives OK; OK, GOING_AWAY, EXTENSION_REQUIRED
\* and 3000..4999 give OK; the five passthrough codes give themselves; every
\* other code and every undecodable body give PROTOCOL_ERROR.
C11_CloseStatusTable ==
    (cur.opcode = "Close" /\ cur.should_send_close) =>
        LET sent == effects[1].status IN
        /\ effects[1].k = "close"
        /\ cur.body = <<>> => sent = OK
        /\ (cur.body # <<>> /\ Len(cur.body[1]) < 2) => sent = PROTOCOL_ERROR
        /\ (cur.body # <<>> /\ Len(cur.body[1]) = 2) =>
              LET c == cur.body[1][1] * 256 + cur.body[1][2] IN
                 sent = IF c \in {1000, 1001, 1010} \/ (c >= 3000 /\ c <= 4999) THEN 1000
                        ELSE IF c \in {1003, 1007, 1008, 1009, 1011} THEN c
                        ELSE 1002

\* The last code of the reserved range, answered with OK.
C11_Witness ==
    /\ cur.opcode = "Close"
    /\ cur.should_send_close
    /\ cur.body = <<CodeBytes(4999)>>
    /\ effects[1] = CloseEff(OK)

\* C12: once a Close has been taken from the channel the task has left its
\* loop, with or without should_send_close(): no further message is taken,
\* dispatched or parsed on the connection.
C12_LoopExitsAfterClose ==
    [][ cur.opcode = "Close" =>
            /\ pc \in {"done", "panicked"}
            /\ UNCHANGED <<pc, taken, cur, req, effects, subscriptions>> ]_vars

\* A Close that was not answered, taken while the task could take more.
C12_Witness ==
    /\ protocol = "Multiplexed"
    /\ cur.opcode = "Close"
    /\ ~cur.should_send_close
    /\ taken < MaxMessages
    /\ pc = "done"

\* C13: a control message handle_control rejects is answered with one text
\* message that begins with INVALID<SEP> or with ERR<SEP>.
C13_ControlErrorAnswered ==
    (protocol = "Multiplexed" /\ CurIsData /\ req.class = "ControlMessage") =>
        LET control == handle_control(PeekFill(NewData(cur.body), PeekLength)) IN
        ~control.ok =>
            /\ Len(effects) = 1
            /\ effects[1].k = "send"
            /\ ~effects[1].binary
            /\ effects[1].body[1] \in {"INVALID", "ERR"}

\* C14: on a multiplexed connection a Text or Binary message, whatever its
\* classification or control command, leaves the task in its loop; a message
\* answered with an error text changes neither the subscription list nor the
\* broker; the loop is left only on a Close or when the channel ends.
C14_ErrorsKeepConnection ==
    [][ (protocol = "Multiplexed" /\ pc = "loop") =>
            /\ cur'.opcode \in {"Text", "Binary"} => pc' = "loop"
            /\ pc' # "loop" => cur'.opcode \in {"Close", "None"}
            /\ Len(KindIn(effects', "send")) > 0 =>
                  /\ subscriptions' = subscriptions
                  /\ broker' = broker ]_vars

\* The ids of the routes of a list that match the topic, in list order.
MatchingIds(rs, topic) ==
    LET hit == SelectSeq(rs, LAMBDA r : Matches(r, topic)) IN
    [i \in 1..Len(hit) |-> hit[i].id]
IsPrefix(a, b) == Len(a) <= Len(b) /\ SubSeq(b, 1, Len(a)) = a

\* C15: an event is routed over the routes of its kind that match the
\* request, in list order, one handler at a time; routing stops at the first
\* Success or Failure; a route that does not match is never called; a Message
\* or Leave event of handle_message that no route settled fails with the 404
\* status.
C15_RoutingOrder ==
    \A i \in 1..Len(effects) :
        effects[i].k = "event" =>
            LET e     == effects[i]
                topic == e.conn.topic
                own   == MatchingIds(routes[e.event], topic)
                all   == IF e.event = "Join" /\ protocol # "Extensions"
                         THEN own \o MatchingIds(routes.Message, topic) ELSE own
            IN  /\ IsPrefix(e.calls, all)
                /\ e.calls # all => e.end \in {"Ok", "Err"} /\ e.status # NOT_FOUND
                /\ e.end = "Ok" => e.calls # <<>>
                /\ protocol # "Extensions" =>
                      /\ e.end \in {"Ok", "Err"}
                      /\ e.status = NOT_FOUND => e.calls = all
                      /\ all = <<>> => e.end = "Err" /\ e.status = NOT_FOUND
                /\ protocol = "Extensions" =>
                      /\ e.end = "Exhausted" => e.calls = all

\* A Message event the first matching route forwarded and the second took.
C15_Witness ==
    /\ protocol = "Naked"
    /\ Len(effects) = 1
    /\ effects[1].k = "event"
    /\ effects[1].event = "Message"
    /\ effects[1].calls = <<"m_a", "m_any">>
    /\ effects[1].end = "Ok"

\* C16: the response to an upgrade request follows the Join event on that
\* request and is the 101 exactly when the Join ended Ok; after a refusal
\* no task runs: no event is dispatched and the broker is never subscribed.
C16_JoinDecidesUpgrade ==
    /\ \A i \in 1..Len(effects) :
          effects[i].k = "response" =>
              /\ i > 1
              /\ effects[i - 1].k = "event"
              /\ effects[i - 1].event = "Join"
              /\ effects[i].switching <=> effects[i - 1].end = "Ok"
    /\ pc \in {"rejected", "loop_refused"} =>
          /\ \A t \in Topics : subscribed[t] = 0
          /\ taken = 0
          /\ EventsOf(effects, "Message") = <<>>
          /\ EventsOf(effects, "Leave") = <<>>

\* C17: a Message event whose routing ends in a failure is followed by a
\* Close with that status and the task leaves its loop; a Leave event that
\* fails is followed by no Close and no message to the client.
C17_MessageFailureCloses ==
    \A i \in 1..Len(effects) :
        (effects[i].k = "event" /\ effects[i].end = "Err") =>
            /\ effects[i].event = "Message" =>
                  /\ i < Len(effects)
                  /\ effects[i + 1] = CloseEff(effects[i].status)
                  /\ pc \notin {"loop", "event_loop"}
            /\ effects[i].event = "Leave" =>
                  \A j \in (i + 1)..Len(effects) : effects[j].k \notin {"close", "send"}

RouteIds(rs) == { rs[i].id : i \in 1..Len(rs) }

\* C18: a Join event of handle_message that no Join route matches is tried
\* on the matching Message routes in order: it ends Ok when one of them
\* accepts it and with the 404 status only when all of them forwarded it (or
\* none matches); Message and Leave events are never tried on the routes of
\* another kind.
C18_JoinFallsBack ==
    \A i \in 1..Len(effects) :
        (effects[i].k = "event" /\ protocol # "Extensions") =>
            LET e     == effects[i]
                joins == MatchingIds(routes.Join, e.conn.topic)
                msgs  == MatchingIds(routes.Message, e.conn.topic)
            IN  /\ (e.event = "Join" /\ joins = <<>>) =>
                      /\ IsPrefix(e.calls, msgs)
                      /\ msgs # <<>> => e.calls # <<>>
                      /\ e.status = NOT_FOUND => e.calls = msgs
                      /\ msgs = <<>> => e.end = "Err" /\ e.status = NOT_FOUND
                /\ e.event \in {"Message", "Leave"} =>
                      \A c \in 1..Len(e.calls) : e.calls[c] \in RouteIds(routes[e.event])

\* An upgrade accepted by a Message route, no Join route being registered.
C18_Witness ==
    /\ routes.Join = <<>>
    /\ Len(effects) = 2
    /\ effects[1].k = "event"
    /\ effects[1].event = "Join"
    /\ effects[1].calls = <<"m_a">>
    /\ effects[1].end = "Ok"
    /\ effects[2] = ResponseEff(TRUE, 0)

\* C19: a handler that panics, in its call or in its poll, ends the routing
\* of the event with the internal-server-error failure: it is the last
\* handler called for the event; and after a Message event that ended so the
\* router's task is still in its loop.
C19_PanicIsolated ==
    \A i \in 1..Len(effects) :
        (effects[i].k = "event" /\ effects[i].panicked > 0) =>
            /\ effects[i].end = "Err"
            /\ effects[i].status = INTERNAL_SERVER_ERROR
            /\ effects[i].panicked = Len(effects[i].calls)
            /\ (protocol # "Extensions" /\ effects[i].event = "Message") => pc = "loop"

\* The second matching Message route panicked, the first having forwarded.
C19_Witness ==
    /\ protocol = "Naked"
    /\ Len(effects) = 1
    /\ effects[1].k = "event"
    /\ effects[1].event = "Message"
    /\ effects[1].calls = <<"m_a", "m_any">>
    /\ effects[1].panicked = 2
    /\ pc = "loop"
    /\ taken < MaxMessages

\* The routes of a table, of every kind.
RoutesOf(table) ==
    UNION { { table[k][n] : n \in 1..Len(table[k]) } : k \in {"Join", "Message", "Leave"} }
RouteById(table, id) == CHOOSE r \in RoutesOf(table) : r.id = id
SameRankOverlapping(a, b) ==
    /\ a.rank = b.rank
    /\ \E t \in Topics : Matches(a, t) /\ Matches(b, t)

\* C20: finalize fails with Collisions exactly when two routes of the table
\* have one rank and overlapping shapes; every pair it reports is such a
\* pair, and it compares every unordered pair of routes exactly once.
C20_FinalizeCollisions ==
    \A i \in 1..Len(effects) :
        effects[i].k = "finalize" =>
            LET e   == effects[i]
                all == RoutesOf(routes)
            IN  /\ pc = "collisions" <=>
                      \E a, b \in all : a # b /\ SameRankOverlapping(a, b)
                /\ pc = "collisions" <=> e.collisions # <<>>
                /\ \A n \in 1..Len(e.collisions) :
                      /\ e.collisions[n][1] # e.collisions[n][2]
                      /\ SameRankOverlapping(RouteById(routes, e.collisions[n][1]),
                                             RouteById(routes, e.collisions[n][2]))
                /\ \A a, b \in all :
                      a # b =>
                         Cardinality({ n \in 1..Len(e.compared) :
                                         e.compared[n] \in {<<a.id, b.id>>, <<b.id, a.id>>} }) = 1
                /\ \A n \in 1..Len(e.compared) : e.compared[n][1] # e.compared[n][2]

\* Two colliding routes with a route between them in the list.
C20_Witness ==
    /\ pc = "collisions"
    /\ Len(effects) = 1
    /\ effects[1].k = "finalize"
    /\ effects[1].collisions = << <<"m_a", "m_a2">> >>
    /\ Len(effects[1].compared) = 3

\* The rank of the route of a table with the id.
RankOf(table, id) == RouteById(table, id).rank

\* C21: the handlers called for one event are called in ascending rank
\* order, whatever the order of registration.
C21_AscendingRank ==
    \A i \in 1..Len(effects) :
        effects[i].k = "event" =>
            \A a, b \in 1..Len(effects[i].calls) :
                a < b => RankOf(routes, effects[i].calls[a]) <= RankOf(routes, effects[i].calls[b])

\* --------------------------------------------- Broker::publish (fan-out)

\* The message published.
PublishedMessages == {"m1"}
PublishTopics == {TopicA, TopicB}

\* There is room in the outbound queue of a handle.
QueueRoom(h) == Len(queues[h]) < QueueCapacity
\* The outbound handles subscribed to a topic.
Subscribers(reg, topic) == { e[2] : e \in { x \in reg : x[1] = topic } }

\* A broker that serves any number of connections: nothing registered,
\* nothing queued.
PublishInit ==
    /\ ChannelIdle
    /\ PublishIdle
    /\ routes = EmptyTable
    /\ protocol = "Naked"
    /\ pc = "publish"
    /\ loop_joined = FALSE
    /\ loop_close_status = -1
    /\ subscriptions = <<>>
    /\ nextId = 1
    /\ broker = {}
    /\ joined = [t \in Topics |-> 0]
    /\ subscribed = [t \in Topics |-> 0]
    /\ unsubscribed = [t \in Topics |-> 0]
    /\ unsubAll = 0
    /\ taken = 0
    /\ cur = NoMsg
    /\ req = NoReq
    /\ effects = <<>>

PublishFrame ==
    UNCHANGED <<routes, protocol, pc, subscriptions, nextId, joined, subscribed,
                unsubscribed, unsubAll, taken, cur, req, effects, loopVars, channelVars>>

\* broker.subscribe(topic, handle) of some connection.
PublishSubscribe ==
    /\ pc = "publish"
    /\ \E h \in Handles, t \in PublishTopics :
          broker' = BrokerSubscribe(broker, t, h)
    /\ UNCHANGED publishVars
    /\ PublishFrame

\* broker.unsubscribe_all(handle) of some connection.
PublishUnsubscribeAll ==
    /\ pc = "publish"
    /\ \E h \in Handles : broker' = BrokerUnsubscribeAll(broker, h)
    /\ UNCHANGED publishVars
    /\ PublishFrame

\* A publish that sends to one subscriber after the other and stops at
\* the first whose queue is full.
PublishInTurn(topic, msg) ==
    /\ pc = "publish"
    /\ waiting = {}
    /\ \E order \in [1..Cardinality(Subscribers(broker, topic)) -> Subscribers(broker, topic)] :
          /\ \A i, j \in DOMAIN order : i # j => order[i] # order[j]
          /\ LET full == { i \in DOMAIN order : ~QueueRoom(order[i]) }
                 stop == IF full = {} THEN Len(order) + 1
                         ELSE CHOOSE i \in full : \A j \in full : i <= j
             IN  /\ queues' = [h \in Handles |->
                       IF \E i \in 1..(stop - 1) : order[i] = h
                       THEN Append(queues[h], msg) ELSE queues[h]]
                 /\ waiting' = waiting \cup
                       { <<order[i], msg>> : i \in { k \in DOMAIN order : k >= stop } }
    /\ UNCHANGED broker
    /\ PublishFrame

\* broker.publish(topic, message): every handle subscribed to the topic
\* gets its copy; a copy for a full queue waits for room there and the
\* other subscribers are served. One publish is under way at a time.
Publish(topic, msg) ==
    /\ pc = "publish"
    /\ waiting = {}
    /\ queues' = [h \in Handles |->
                    IF h \in Subscribers(broker, topic) /\ QueueRoom(h)
                    THEN Append(queues[h], msg) ELSE queues[h]]
    /\ waiting' = waiting \cup
          { <<h, msg>> : h \in { g \in Subscribers(broker, topic) : ~QueueRoom(g) } }
    /\ UNCHANGED broker
    /\ PublishFrame

PublishAny == \E t \in PublishTopics, msg \in PublishedMessages : Publish(t, msg)

\* A waiting copy enters its queue once there is room.
PublishDeliver ==
    /\ pc = "publish"
    /\ \E d \in waiting :
          /\ QueueRoom(d[1])
          /\ queues' = [queues EXCEPT ![d[1]] = Append(@, d[2])]
          /\ waiting' = waiting \ {d}
    /\ UNCHANGED broker
    /\ PublishFrame

\* A connection's event loop takes the next message off its queue.
PublishDrain ==
    /\ pc = "publish"
    /\ \E h \in Handles :
          /\ queues[h] # <<>>
          /\ queues' = [queues EXCEPT ![h] = Tail(@)]
    /\ UNCHANGED <<broker, waiting>>
    /\ PublishFrame

PublishNext ==
    \/ PublishSubscribe
    \/ PublishUnsubscribeAll
    \/ PublishAny
    \/ PublishDeliver
    \/ PublishDrain

PublishSpec == PublishInit /\ [][PublishNext]_vars

\* ------------------------------------------- properties of the channel

\* The transport has ended: everything is delivered and the next read
\* returns Ok(0) or an error.
TransportEnded == wire = <<>> /\ wire_end \in {"eof", "error"}
\* The decoder faces bytes that are no frame header.
MalformedAhead ==
    running_message = <<>> /\ read_buf # <<>> /\ Head(read_buf).kind = "bad"
\* Neither message_handler nor the consumer can change anything any more.
ChannelQuiescent == ~ENABLED <<ChannelNext /\ dropped' = dropped>>_vars
\* WebsocketChannel::next returns None: message_handler has returned,
\* dropping message_tx, and no message is left in the channel.
NextReturnsNone == handler_pc = "break" /\ message_tx = <<>>

\* C22: once the transport has reached end-of-stream or returned a read
\* error, or a malformed header is decoded, message_handler terminates and
\* the consumer's next() returns None: wherever the channel comes to rest
\* after that, message_handler has left its loop.
C22_TerminatesOnTransportEnd ==
    (handler_pc # "idle" /\ ChannelQuiescent /\ (TransportEnded \/ MalformedAhead))
        => NextReturnsNone

\* The last frame of the message that the client's frame i starts: the
\* first frame from i on with fin set.
MessageEnd(i) ==
    IF \E j \in i..Len(frames) : frames[j].fin
    THEN CHOOSE j \in i..Len(frames) :
            frames[j].fin /\ \A k \in i..(j - 1) : ~frames[k].fin
    ELSE Len(frames)
\* The payload of that message, before masking.
MessagePayload(i) ==
    Flatten([k \in 1..(MessageEnd(i) - i + 1) |-> frames[i + k - 1].payload])
\* The bytes the consumer has read from a message.
GotBytes(m) == [k \in 1..Len(m.got) |-> m.got[k].b]

\* C23: a message handed to the consumer yields exactly the unmasked
\* payload of its own frames, first frame through fin frame, in wire
\* order, and then ends: no byte of another message, none twice, none
\* dropped; and no continuation frame starts a message.
C23_PayloadExact ==
    \A n \in 1..Len(consumer) :
       LET m == consumer[n] IN
       /\ m.header.opcode # "Continuation"
       /\ \A k \in 1..Len(m.got) :
             m.got[k].frame \in m.header.frame..MessageEnd(m.header.frame)
       /\ m.ended => GotBytes(m) = MessagePayload(m.header.frame)

\* The outbound branches of select! and what they wait for: a message on
\* the send queue while none is being written, or a chunk (or the end) of
\* the message being written.
OutboundStep == BrokerRecv \/ WriteChunk \/ WriteFin
OutboundPending ==
    \/ outgoing_message = <<>> /\ broker_rx # <<>>
    \/ outgoing_message # <<>>
       /\ (outgoing_message[1].chunks # <<>> \/ ~outgoing_message[1].open)
\* The producer of the message being written supplies nothing.
ProducerStalled ==
    /\ outgoing_message # <<>>
    /\ outgoing_message[1].chunks = <<>>
    /\ outgoing_message[1].open
\* The inbound branches of select! and what they wait for: bytes of a
\* header to read or decode, or room for the next chunk of a payload.
InboundStep ==
    ReadHeaderRead \/ ReadHeaderMalformed \/ ReadHeaderOk \/ ContinueMessage
InboundPending ==
    \/ running_message = <<>> /\ (read_buf # <<>> \/ wire # <<>>)
    \/ running_message # <<>> /\ DataRoom

\* C24: a slow party stalls only its own branch. While message_handler
\* runs and does not wait for the client, what is queued outbound can be
\* written whatever the consumer does, and what arrives can be read and
\* forwarded while an outbound producer supplies nothing.
C24_SlowPartyStallsOwnBranch ==
    /\ (handler_pc \in {"select", "send_message"} /\ OutboundPending)
          => ENABLED OutboundStep
    /\ (handler_pc = "select" /\ ProducerStalled /\ InboundPending)
          => ENABLED InboundStep

\* C28: every Close frame written to the transport is one unfragmented
\* frame: the Close opcode with fin set, and no continuation frame after
\* it, with or without a status payload.
C28_CloseUnfragmented ==
    \A n \in 1..Len(written) :
       written[n].opcode = "Close" =>
          /\ written[n].fin
          /\ n < Len(written) => written[n + 1].opcode # "Continuation"

\* C30: the next header is read only while no payload is in flight. The
\* read-header branch is polled exactly when running_message is None and
\* the continue branch exactly when it is Some, never both; what a
\* RunningMessage holds as payload are payload bytes, and what the decoder
\* is given as a header is no payload byte.
C30_HeaderOnlyBetweenMessages ==
    handler_pc \in {"select", "send_message", "read_next_part"} =>
       /\ next_message <=> running_message = <<>>
       /\ ~(next_message /\ running_message # <<>>)
       /\ running_message # <<>> =>
             \A k \in 1..Len(running_message[1].current) :
                running_message[1].current[k].kind = "byte"
       /\ (handler_pc = "select" /\ next_message /\ read_buf # <<>>) =>
             Head(read_buf).kind # "byte"
\* A payload is in flight while the next frame's header is already in the
\* buffer, and after a header was decoded before.
C30_Witness ==
    /\ handler_pc = "select"
    /\ running_message # <<>>
    /\ running_message[1].current # <<>>
    /\ read_buf # <<>>
    /\ Head(read_buf).kind = "header"
    /\ Head(read_buf).frame = 2

\* The lengths peek and take are asked for: none, one byte, what
\* multiplex_get_request peeks, what handle_control takes, more than
\* PEEK_BYTES.
PeekNums == {0, 1, PeekLength, PEEK_BYTES, PEEK_BYTES + 88}

C27_LeaveSeesNormalizedStatus ==
    (cur.opcode = "Close" /\ protocol \in {"Naked", "Multiplexed"}) =>
        \A j \in 1..Len(effects) :
           (effects[j].k = "event" /\ effects[j].event = "Leave"
                                   /\ effects[j].calls # <<>>) =>
               effects[j].payload = <<TableStatus(cur.body)>>

C31_OneOutboundInFlight ==
    /\ Len(outgoing_message) <= 1
    /\ \A i \in 1..(Len(written) - 1) :
          \/ written[i].msg = written[i + 1].msg
          \/ /\ written[i].msg < written[i + 1].msg
             /\ written[i].fin
    /\ (outgoing_message # <<>> /\ written # <<>>) =>
          \/ written[Len(written)].msg = outgoing_message[1].id
          \/ /\ written[Len(written)].msg < outgoing_message[1].id
             /\ written[Len(written)].fin

\* Two outbound messages have both put frames on the wire.
C31_Witness ==
    /\ \E i \in 1..Len(written) : written[i].msg = 1 /\ ~written[i].fin
    /\ \E j \in 1..Len(written) : written[j].msg = 2 /\ ~written[j].fin

\* ---------------------------------------------------------------------
\* C32: an outbound Text or Binary message is written as one frame with fin
\* clear per chunk, the first with the message's opcode and the later ones
\* with the continuation opcode, ended by exactly one empty frame with fin
\* set, written when the chunk source has ended; after it outgoing_message
\* is None and no further frame of the message is written.
DataFramesEnd ==
    \A i \in 1..Len(written) : \A j \in (i + 1)..Len(written) :
        (written[i].msg = written[j].msg /\ written[j].opcode # "Close"
            /\ written[i].opcode # "Close")
        => (~written[i].fin /\ written[j].opcode = "Continuation")

DataFrameStep ==
    (written' # written
        /\ (outgoing_message = <<>> \/ outgoing_message[1].first \in {"Text", "Binary"}))
    => /\ outgoing_message # <<>>
       /\ LET message == outgoing_message[1]
              f == written'[Len(written')]
          IN  /\ written' = Append(written, f)
              /\ f.msg = message.id
              /\ IF message.chunks # <<>>
                 THEN /\ ~f.fin
                      /\ f.payload = message.all[Len(message.all) - Len(message.chunks) + 1]
                      /\ f.opcode = IF Len(message.chunks) = Len(message.all)
                                    THEN message.first ELSE "Continuation"
                      /\ outgoing_message' # <<>>
                      /\ outgoing_message'[1].id = message.id
                      /\ Len(outgoing_message'[1].chunks) = Len(message.chunks) - 1
                 ELSE /\ ~message.open
                      /\ f.fin
                      /\ f.payload = <<>>
                      /\ f.opcode = IF message.all = <<>>
                                    THEN message.first ELSE "Continuation"
                      /\ outgoing_message' = <<>>

C32_OutboundFrameSequence == [][DataFrameStep /\ DataFramesEnd']_vars

\* The Binary message of two chunks is on the wire, whole.
C32_Witness ==
    /\ outgoing_message = <<>>
    /\ SelectSeq(written, LAMBDA f : f.msg = 2)
         = << WrittenFrame(FALSE, "Binary", Hi, 2),
              WrittenFrame(FALSE, "Continuation", TopicA, 2),
              WrittenFrame(TRUE, "Continuation", <<>>, 2) >>

\* ---------------------------------------------------------------------
\* C33: the RunningMessage of every incoming frame is destroyed in the end:
\* once the transport has delivered all the bytes the client sent and the
\* loop and the consumer, which still holds the channel, can do nothing
\* more, running_message is None.
C33_RunningMessageDestroyed ==
    (ChannelQuiescent /\ pc = "channel" /\ ~dropped /\ wire = <<>>)
        => running_message = <<>>

\* ---------------------------------------------------------------------
\* C35: on one connection at most one Close frame is written, and no frame
\* of another message is written after a Close frame.
C35_SingleClose ==
    \A i \in 1..Len(written) : \A j \in (i + 1)..Len(written) :
        written[i].opcode = "Close" => written[j].msg = written[i].msg

\* ---------------------------------------------------------------------
\* C39: once the WebsocketChannel and every clone of its send handle are
\* dropped, no send of the loop stays blocked, and the loop is left: when
\* message_handler can change nothing any more, it has left its loop.
C39_LeavesLoopAfterDrop ==
    dropped =>
       /\ handler_pc = "send_message" => ENABLED <<SendMessageResume>>_vars
       /\ ChannelQuiescent => handler_pc = "break"

\* ---------------------------------------------------------------------
\* C34: ws_event_loop routes the Join event for the first data message of
\* a connection and for no later one; broker.subscribe is called at most
\* once per connection, exactly when that Join routing ended in Success or
\* Forward; when it ended in Failure nothing is subscribed, a Close with
\* the failure status is sent and the loop is left with no Message event
\* dispatched in it (what follows is the code after the loop, which starts
\* with unsubscribe_all).
LoopSubscribeOnce ==
    /\ Cardinality({t \in Topics : subscribed[t] > 0}) <= 1
    /\ \A t \in Topics : subscribed[t] <= 1
    /\ ~loop_joined => \A t \in Topics : subscribed[t] = 0

LoopDataStep ==
    (pc = "event_loop" /\ taken' = taken + 1 /\ CurIsData')
    => LET joins == EventsOf(effects', "Join")
           subs  == BrokerCalls(effects', "subscribe")
       IN  /\ loop_joined'
           /\ LoopSubscribeOnce'
           /\ IF loop_joined
              THEN joins = <<>> /\ subs = <<>>
              ELSE /\ Len(joins) = 1
                   /\ effects'[1] = joins[1]
                   /\ joins[1].conn = subscriptions[1]
                   /\ joins[1].payload = CurBytes'
                   /\ IF joins[1].end = "Err"
                      THEN /\ subs = <<>>
                           /\ Registered(broker', Ws) = {}
                           /\ Len(effects') >= 3
                           /\ effects'[2] = CloseEff(joins[1].status)
                           /\ effects'[3] = BrokerEff("unsubscribe_all", <<>>)
                           /\ pc' = "done"
                      ELSE /\ subs = <<BrokerEff("subscribe", subscriptions[1].topic)>>
                           /\ effects'[2] = subs[1]

C34_JoinForFirstMessageOnly == [][LoopDataStep]_vars

\* The first data message of a connection, its Join routing ended in Failure.
C34_FailureWitness ==
    /\ loop_joined
    /\ pc = "done"
    /\ taken = 1
    /\ effects # <<>>
    /\ effects[1].k = "event"
    /\ effects[1].event = "Join"
    /\ effects[1].end = "Err"
    /\ effects[1].calls # <<>>

\* ---------------------------------------------------------------------
\* C36: on a multiplexed connection the topics of the Connections in the
\* subscription list are pairwise distinct, and no step (a SUBSCRIBE in
\* particular) changes the topic of a Connection that is in the list: a
\* SUBSCRIBE appends a fresh Connection and leaves the entries as they are.
SubscriptionsDistinct ==
    \A i \in 1..Len(subscriptions) : \A j \in 1..Len(subscriptions) :
        subscriptions[i].topic = subscriptions[j].topic => i = j

SubscribeKeepsEntries ==
    /\ \A i \in 1..Len(subscriptions) : \A j \in 1..Len(subscriptions') :
          subscriptions[i].id = subscriptions'[j].id
             => subscriptions[i].topic = subscriptions'[j].topic
    /\ Len(subscriptions') > Len(subscriptions) =>
          /\ SubSeq(subscriptions', 1, Len(subscriptions)) = subscriptions
          /\ Len(subscriptions') = Len(subscriptions) + 1
          /\ \A i \in 1..Len(subscriptions) :
                subscriptions[i].id # subscriptions'[Len(subscriptions')].id

C36_TopicsDistinct ==
    [][(protocol = "Multiplexed" /\ pc = "loop")
          => (SubscriptionsDistinct' /\ SubscribeKeepsEntries)]_vars

\* A SUBSCRIBE has added a second Connection to the list.
C36_Witness ==
    /\ protocol = "Multiplexed"
    /\ Len(subscriptions) = 2
    /\ BrokerCalls(effects, "subscribe") # <<>>

\* ---------------------------------------------------------------------
\* C37: each time the multiplexed task is about to take the next message,
\* the topics under which the connection's outbound handle is registered in
\* the broker are the topics of its subscription list; after the final
\* unsubscribe_all the handle is registered under no topic.
C37_RegistryMatchesSubscriptions ==
    protocol = "Multiplexed" =>
       /\ pc = "loop" => Registered(broker, Ws) = TopicsOf(subscriptions)
       /\ pc = "done" => Registered(broker, Ws) = {}

\* The task is about to take a message after a SUBSCRIBE and the UNSUBSCRIBE
\* of the connection's first topic.
C37_Witness ==
    /\ protocol = "Multiplexed"
    /\ pc = "loop"
    /\ Len(subscriptions) = 1
    /\ subscriptions[1].id > 1
    /\ BrokerCalls(effects, "unsubscribe") # <<>>
    /\ Registered(broker, Ws) = {subscriptions[1].topic}

\* ---------------------------------------------------------------------
\* C38: every Connection whose Join succeeded receives exactly one Leave
\* event: when the task of a multiplexed connection has left its loop and
\* run its teardown, a Leave event was dispatched for each Connection still
\* in the subscription list, and for none twice.
C38_LeaveForEachConnection ==
    (protocol = "Multiplexed" /\ pc = "done" /\ unsubAll > 0) =>
       LET leaves == EventsOf(effects, "Leave") IN
       /\ \A i \in 1..Len(subscriptions) :
             \E n \in 1..Len(leaves) : leaves[n].conn = subscriptions[i]
       /\ \A n \in 1..Len(leaves) : \A m \in 1..Len(leaves) :
             leaves[n].conn.topic = leaves[m].conn.topic => n = m

====
